---- MODULE Spec2Model ----
(***************************************************************************)
(* Mail merge engine of app.py: the placeholder scanner, the formatting    *)
(* resolver, the paragraph rebuilder, the document merge driver and the    *)
(* multi-record assembler (SEPARATE and COMBINED output).                  *)
(*                                                                         *)
(* Text is a sequence of one-character strings.  Offsets are the 0-based   *)
(* offsets of the Python code; text[k] of the code is text[k+1] here.      *)
(* Python's None is the string "None"; attribute values are strings so     *)
(* that every attribute has one type ("True"/"False" for the booleans,     *)
(* the decimal numeral of the Length for font_size).                       *)
(***************************************************************************)
EXTENDS Integers, Sequences, FiniteSets, TLC

VARIABLES
    paragraph,       \* the paragraph replace_merge_fields_advanced works on
    origParagraph,   \* the same paragraph as it was before the call
    data_row,        \* the record of the call
    phase,           \* "init" before the call, "rebuilt" or "driven" after it
    template_path,   \* MailMergeProcessor.template_path
    data,            \* MailMergeProcessor.data
    first_column_header,   \* MailMergeProcessor.first_column_header
    files,           \* the template files that exist in the upload folder
    op,              \* the last operation called on the processor
    entry,           \* "direct", or "process_merge" when called through it
    result,          \* its return value
    output,          \* the files it has written at its output path
    via,             \* the path generate_single_word took
    pc,              \* where a call of generate_single_word is, step by step
    steps,           \* the steps that call has taken, in order
    assembled,       \* its final_doc
    processed_docs,  \* its processed_doc, or all_processed_docs on the page-break path
    asked_position,  \* the text_position of a call of _find_run_for_position
    found_info,      \* its return value
    formatted_run,   \* the new_run _apply_formatting has been called on
    failed_attr,     \* the attribute whose assignment raised in that call
    conversion,      \* a call of convert_word_to_pdf_simple: strategies tried, outcome
    processors,      \* the keys of the dict processors, in insertion order
    session,         \* what the session under watch has uploaded, and how it fared
    splitter         \* a WordSplitter: its document, its pages, its last call

rvars == <<paragraph, origParagraph, data_row, phase>>

pvars == <<template_path, data, first_column_header, files>>

ovars == <<op, entry, result, output, via>>

avars == <<pc, steps, assembled, processed_docs>>

fvars == <<asked_position, found_info, formatted_run, failed_attr>>

xvars == <<conversion, processors, session, splitter>>

vars == <<rvars, pvars, ovars, avars, fvars, xvars>>

----------------------------------------------------------------------------
(* Bounds of the paragraph inputs *)

MaxRuns == 3

MaxRecords == 3

PaletteShifts == 2

----------------------------------------------------------------------------
(* Strings *)

None == "None"

WordChars ==
    {"a", "b", "c", "d", "e", "k", "o", "r", "v", "x", "J", "_",
     "0", "1", "2", "3", "4", "5", "6", "7", "8", "9"}

IsWordChar(c) == c \in WordChars

\* F applied to the value of x, x being evaluated once
Let(x, F(_)) == CHOOSE r \in {F(v) : v \in {x}} : TRUE

\* text[a:b] of Python, 0-based, b exclusive
Slice(text, a, b) == SubSeq(text, a + 1, b)

RECURSIVE Concat(_)
Concat(seqs) ==
    IF seqs = <<>> THEN <<>> ELSE Head(seqs) \o Concat(Tail(seqs))

\* needle in text
Contains(text, needle) ==
    \E s \in 0..(Len(text) - Len(needle)) :
        Slice(text, s, s + Len(needle)) = needle

OpenBraces == <<"{", "{">>

CloseBraces == <<"}", "}">>

\* the merge field of a name
Tok(name) == OpenBraces \o name \o CloseBraces

----------------------------------------------------------------------------
(* Template model: runs, formatting, paragraphs *)

Attrs == {"bold", "italic", "underline", "font_name", "font_size", "font_color"}

Unset ==
    [bold |-> None, italic |-> None, underline |-> None,
     font_name |-> None, font_size |-> None, font_color |-> None]

\* paragraph.add_run(text): a new run with no direct formatting
NewRun(text) == [text |-> text, fmt |-> Unset]

\* paragraph.text: the run texts joined
ParagraphText(p) == Concat([i \in 1..Len(p.runs) |-> p.runs[i].text])

----------------------------------------------------------------------------
(* Placeholder scanner: re.finditer(r'\{\{(\w+)\}\}', full_text) *)

\* first offset >= pos whose character is not a word character (\w+ is greedy)
RECURSIVE WordEnd(_, _)
WordEnd(text, pos) ==
    IF pos < Len(text) /\ IsWordChar(text[pos + 1])
    THEN WordEnd(text, pos + 1)
    ELSE pos

\* the match that starts at offset pos, or NoMatch
NoMatch == [found |-> FALSE, field_name |-> <<>>, start |-> 0, end |-> 0]

\* variant: the name may be empty (\w* for \w+)
MatchAtEmptyName(text, pos) ==
    IF pos + 2 <= Len(text) /\ Slice(text, pos, pos + 2) = OpenBraces
    THEN LET e == WordEnd(text, pos + 2)
         IN  IF e + 2 <= Len(text) /\ Slice(text, e, e + 2) = CloseBraces
             THEN [found |-> TRUE, field_name |-> Slice(text, pos + 2, e),
                   start |-> pos, end |-> e + 2]
             ELSE NoMatch
    ELSE NoMatch

MatchAt(text, pos) ==
    IF pos + 2 <= Len(text) /\ Slice(text, pos, pos + 2) = OpenBraces
    THEN LET e == WordEnd(text, pos + 2)
         IN  IF e > pos + 2 /\ e + 2 <= Len(text)
                /\ Slice(text, e, e + 2) = CloseBraces
             THEN [found |-> TRUE, field_name |-> Slice(text, pos + 2, e),
                   start |-> pos, end |-> e + 2]
             ELSE NoMatch
    ELSE NoMatch

\* leftmost matches, the search resuming at the end of each match
RECURSIVE FindIterFrom(_, _)
FindIterFrom(text, pos) ==
    IF pos >= Len(text) THEN <<>>
    ELSE Let(MatchAt(text, pos),
             LAMBDA m :
                 IF m.found
                 THEN <<[field_name |-> m.field_name, start |-> m.start, end |-> m.end]>>
                          \o FindIterFrom(text, m.end)
                 ELSE FindIterFrom(text, pos + 1))

\* variant: the first match only (re.search for re.finditer)
FindFirstOnly(text) ==
    IF FindIterFrom(text, 0) = <<>> THEN <<>> ELSE <<Head(FindIterFrom(text, 0))>>

\* variant: the matches listed from the last to the first
FindIterBackwards(text) ==
    [k \in 1..Len(FindIterFrom(text, 0)) |->
        FindIterFrom(text, 0)[Len(FindIterFrom(text, 0)) + 1 - k]]

finditer(text) == FindIterFrom(text, 0)

----------------------------------------------------------------------------
(* Formatting resolver *)

\* the formatting dict read off one run
ExtractFormatting(run) ==
    [bold |-> run.fmt.bold,
     italic |-> run.fmt.italic,
     underline |-> run.fmt.underline,
     font_name |-> run.fmt.font_name,
     font_size |-> run.fmt.font_size,
     font_color |-> IF run.fmt.font_color # None THEN run.fmt.font_color ELSE None]

\* the return value None of find_run_for_position
RunInfoNone == [isNone |-> TRUE, formatting |-> Unset]

\* variant: a run owns the offset at its end too
RECURSIVE FindRunWalkClosed(_, _, _, _)
FindRunWalkClosed(runs, text_position, i, current_pos) ==
    IF i > Len(runs)
    THEN IF Len(runs) > 0
         THEN [isNone |-> FALSE, formatting |-> ExtractFormatting(runs[1])]
         ELSE RunInfoNone
    ELSE LET run_len == Len(runs[i].text)
         IN  IF current_pos <= text_position /\ text_position <= current_pos + run_len
             THEN [isNone |-> FALSE, formatting |-> ExtractFormatting(runs[i])]
             ELSE FindRunWalkClosed(runs, text_position, i + 1, current_pos + run_len)

RECURSIVE FindRunWalk(_, _, _, _)
FindRunWalk(runs, text_position, i, current_pos) ==
    IF i > Len(runs)
    THEN IF Len(runs) > 0
         THEN [isNone |-> FALSE, formatting |-> ExtractFormatting(runs[1])]
         ELSE RunInfoNone
    ELSE LET run_len == Len(runs[i].text)
         IN  IF current_pos <= text_position /\ text_position < current_pos + run_len
             THEN [isNone |-> FALSE, formatting |-> ExtractFormatting(runs[i])]
             ELSE FindRunWalk(runs, text_position, i + 1, current_pos + run_len)

find_run_for_position(p, text_position) == FindRunWalk(p.runs, text_position, 1, 0)

\* w:sz w:val="21.5": a size python-docx cannot convert to a Length
MalformedSize == "21.5"

\* run.font.size raises (ValueError) on such a size
ReadRaises(run) == run.fmt.font_size = MalformedSize

\* index of the run whose attributes _find_run_for_position reads: the run
\* that owns the offset, else the first run; 0 when the paragraph has no run
RECURSIVE ReadRunWalk(_, _, _, _)
ReadRunWalk(runs, text_position, i, current_pos) ==
    IF i > Len(runs) THEN (IF Len(runs) > 0 THEN 1 ELSE 0)
    ELSE IF current_pos <= text_position
               /\ text_position < current_pos + Len(runs[i].text)
         THEN i
         ELSE ReadRunWalk(runs, text_position, i + 1, current_pos + Len(runs[i].text))

\* _find_run_for_position raises: it has no handler of its own
ResolverRaises(p, text_position) ==
    \E j \in {ReadRunWalk(p.runs, text_position, 1, 0)} :
        j # 0 /\ ReadRaises(p.runs[j])

----------------------------------------------------------------------------
(* Applying a formatting dict to a run *)

\* Python truth value of a font name (a str) and of a font size (a Length, an int)
TruthyName(v) == v # None /\ v # ""

TruthySize(v) == v # None /\ v # "0"

TruthyColor(v) == v # None

apply_formatting(run, formatting) ==
    [run EXCEPT !.fmt = [@ EXCEPT
        !.bold = IF formatting.bold # None THEN formatting.bold ELSE @,
        !.italic = IF formatting.italic # None THEN formatting.italic ELSE @,
        !.underline = IF formatting.underline # None THEN formatting.underline ELSE @,
        !.font_name = IF TruthyName(formatting.font_name) THEN formatting.font_name ELSE @,
        !.font_size = IF TruthySize(formatting.font_size) THEN formatting.font_size ELSE @,
        !.font_color = IF TruthyColor(formatting.font_color)
                       THEN formatting.font_color ELSE @]]

\* the order of the assignments inside the one try block
AttrOrder == <<"bold", "italic", "underline", "font_name", "font_size", "font_color">>

AttrIndex(attr) == CHOOSE k \in 1..Len(AttrOrder) : AttrOrder[k] = attr

\* the test before the assignment of attr passes, so that the assignment is made
Attempted(formatting, attr) ==
    IF attr = "font_name" THEN TruthyName(formatting.font_name)
    ELSE IF attr = "font_size" THEN TruthySize(formatting.font_size)
         ELSE IF attr = "font_color" THEN TruthyColor(formatting.font_color)
              ELSE formatting[attr] # None

\* the assignment of failing raises: the except clause ends the call, the
\* assignments before it are made, those after it are not
apply_formatting_raising(run, formatting, failing) ==
    [run EXCEPT !.fmt = [attr \in Attrs |->
        IF AttrIndex(attr) < AttrIndex(failing)
        THEN apply_formatting(run, formatting).fmt[attr]
        ELSE run.fmt[attr]]]

----------------------------------------------------------------------------
(* Paragraph rebuilder *)

\* variant: a missing field keeps its name (data_row.get(field_name, field_name))
LookupKeepName(row, field_name) ==
    IF field_name \in DOMAIN row THEN row[field_name] ELSE field_name

\* str(data_row.get(field_name, ""))
Lookup(row, field_name) ==
    IF field_name \in DOMAIN row THEN row[field_name] ELSE <<>>

\* one entry of new_runs_data
RunData(text, run_info) ==
    [text |-> text, hasFormatting |-> ~run_info.isNone,
     formatting |-> run_info.formatting]

\* the text before a merge field, when there is some
BeforeEntry(p, full_text, match, current_pos) ==
    IF match.start > current_pos /\ Slice(full_text, current_pos, match.start) # <<>>
    THEN <<RunData(Slice(full_text, current_pos, match.start),
                   find_run_for_position(p, current_pos))>>
    ELSE <<>>

\* the replacement of a merge field, when it is not empty
ReplacementEntry(p, row, match) ==
    IF Lookup(row, match.field_name) # <<>>
    THEN <<RunData(Lookup(row, match.field_name), find_run_for_position(p, match.start))>>
    ELSE <<>>

\* the loop over merge_list; st is <<new_runs_data, current_pos>> as a record
RECURSIVE BuildRuns(_, _, _, _, _, _)
BuildRuns(p, full_text, row, merge_list, k, st) ==
    IF k > Len(merge_list) THEN st
    ELSE Let([new_runs_data |->
                 st.new_runs_data
                     \o BeforeEntry(p, full_text, merge_list[k], st.current_pos)
                     \o ReplacementEntry(p, row, merge_list[k]),
              current_pos |-> merge_list[k].end],
             LAMBDA next : BuildRuns(p, full_text, row, merge_list, k + 1, next))

\* the text after the last merge field, when there is some
RemainingEntry(p, full_text, current_pos) ==
    IF current_pos < Len(full_text) /\ Slice(full_text, current_pos, Len(full_text)) # <<>>
    THEN <<RunData(Slice(full_text, current_pos, Len(full_text)),
                   find_run_for_position(p, current_pos))>>
    ELSE <<>>

\* variant: the text after the last merge field is not added
NewRunsDataNoTail(p, row) ==
    Let(ParagraphText(p),
        LAMBDA full_text :
            BuildRuns(p, full_text, row, finditer(full_text), 1,
                      [new_runs_data |-> <<>>, current_pos |-> 0]).new_runs_data)

\* new_runs_data as it is when the runs are cleared
NewRunsData(p, row) ==
    Let(ParagraphText(p),
        LAMBDA full_text :
            Let(BuildRuns(p, full_text, row, finditer(full_text), 1,
                          [new_runs_data |-> <<>>, current_pos |-> 0]),
                LAMBDA st :
                    st.new_runs_data \o RemainingEntry(p, full_text, st.current_pos)))

\* the run created for one entry of new_runs_data
CreateRun(run_data) ==
    IF run_data.hasFormatting
    THEN apply_formatting(NewRun(run_data.text), run_data.formatting)
    ELSE NewRun(run_data.text)

HasText(run_data) == run_data.text # <<>>

\* run.clear(): the run stays in the paragraph, with its formatting and no text
ClearRun(run) == [run EXCEPT !.text = <<>>]

\* the runs cleared, then one run added for every entry that has text
Rebuilt(p, new_runs_data) ==
    [p EXCEPT !.runs = [i \in 1..Len(p.runs) |-> ClearRun(p.runs[i])]
                           \o [i \in 1..Len(new_runs_data) |-> CreateRun(new_runs_data[i])]]

\* variant: no early return when merge_list is empty
RebuildWithoutEarlyReturn(p, row) ==
    Rebuilt(p, SelectSeq(NewRunsData(p, row), HasText))

replace_merge_fields_advanced(p, row) ==
    IF finditer(ParagraphText(p)) = <<>> THEN p
    ELSE Rebuilt(p, SelectSeq(NewRunsData(p, row), HasText))

\* the guard of replace_merge_fields around every call
DriverParagraph(p, row) ==
    IF Contains(ParagraphText(p), OpenBraces) /\ Contains(ParagraphText(p), CloseBraces)
    THEN replace_merge_fields_advanced(p, row)
    ELSE p

\* the offsets replace_merge_fields_advanced resolves: the start of the text
\* before a merge field, the start of a merge field whose replacement is not
\* empty, the start of the remaining text
RECURSIVE ResolvedPositions(_, _, _, _, _)
ResolvedPositions(full_text, row, merge_list, k, current_pos) ==
    IF k > Len(merge_list)
    THEN (IF current_pos < Len(full_text) THEN {current_pos} ELSE {})
    ELSE (IF merge_list[k].start > current_pos THEN {current_pos} ELSE {})
             \cup (IF Lookup(row, merge_list[k].field_name) # <<>>
                   THEN {merge_list[k].start} ELSE {})
             \cup ResolvedPositions(full_text, row, merge_list, k + 1, merge_list[k].end)

\* replace_merge_fields_advanced raises: one of its calls of the resolver does
\* (all of them come before the runs are cleared)
RebuildRaises(p, row) ==
    /\ finditer(ParagraphText(p)) # <<>>
    /\ \E pos \in ResolvedPositions(ParagraphText(p), row, finditer(ParagraphText(p)), 1, 0) :
           ResolverRaises(p, pos)

DriverRaises(p, row) ==
    /\ Contains(ParagraphText(p), OpenBraces)
    /\ Contains(ParagraphText(p), CloseBraces)
    /\ RebuildRaises(p, row)

----------------------------------------------------------------------------
(* Documents: the body is the sequence of children of w:body, every child   *)
(* one record shape; kind is "p", "tbl" or "sectPr" (the body's closing     *)
(* section properties).  brk marks a paragraph that is a page separator:    *)
(* "section" (a section break, added by add_section) or "page" (a run       *)
(* holding w:br w:type="page").  A table's cells is a sequence of rows, a   *)
(* row a sequence of cells, a cell the sequence of its children: its        *)
(* paragraphs and the tables nested in it.                                  *)

Para(runs, style, alignment) ==
    [kind |-> "p", runs |-> runs, style |-> style, alignment |-> alignment,
     brk |-> "none", nrows |-> 0, ncols |-> 0, cells |-> <<>>]

Table(nrows, ncols, cells, style) ==
    [kind |-> "tbl", runs |-> <<>>, style |-> style, alignment |-> None,
     brk |-> "none", nrows |-> nrows, ncols |-> ncols, cells |-> cells]

SectPr ==
    [kind |-> "sectPr", runs |-> <<>>, style |-> None, alignment |-> None,
     brk |-> "none", nrows |-> 0, ncols |-> 0, cells |-> <<>>]

\* doc.paragraphs and doc.tables: the w:p and the w:tbl children of the body
IsP(el) == el.kind = "p"

IsTbl(el) == el.kind = "tbl"

Paragraphs(doc) == SelectSeq(doc.body, IsP)

Tables(doc) == SelectSeq(doc.body, IsTbl)

\* cell.paragraphs: the w:p children of the cell, not those of a table in it
CellParagraphs(cell) == SelectSeq(cell, IsP)

\* a child inserted by add_paragraph / add_table: before the body's w:sectPr
\* when there is one (the successor of w:p and w:tbl), else at the end
InsertBeforeSectPr(body, el) ==
    LET at == {i \in 1..Len(body) : body[i].kind = "sectPr"}
    IN  IF at = {} THEN Append(body, el)
        ELSE LET first == CHOOSE i \in at : \A j \in at : i <= j
             IN  SubSeq(body, 1, first - 1) \o <<el>> \o SubSeq(body, first, Len(body))

\* body.append(element): the last child, after a w:sectPr too
AppendLast(body, el) == Append(body, el)

----------------------------------------------------------------------------
(* Document merge driver: replace_merge_fields *)

MergeParagraphs(paras, row) ==
    [i \in 1..Len(paras) |-> DriverParagraph(paras[i], row)]

\* for paragraph in cell.paragraphs: a table nested in the cell is not visited
MergeCell(cell, row) ==
    [i \in 1..Len(cell) |->
        IF IsP(cell[i]) THEN DriverParagraph(cell[i], row) ELSE cell[i]]

MergeTable(tbl, row) ==
    [tbl EXCEPT !.cells =
        [r \in 1..Len(tbl.cells) |->
            [c \in 1..Len(tbl.cells[r]) |-> MergeCell(tbl.cells[r][c], row)]]]

MergeElement(el, row) ==
    IF el.kind = "p" THEN DriverParagraph(el, row)
    ELSE IF el.kind = "tbl" THEN MergeTable(el, row)
    ELSE el

\* doc.sections: one for every section break in the body, and the last one
Sections(doc) ==
    1 + Cardinality({i \in 1..Len(doc.body) : doc.body[i].brk = "section"})

\* for section in doc.sections: every section's header is the header of the
\* document (the later sections are linked to the one before), so that its
\* paragraphs are visited once for every section
RECURSIVE MergeParagraphsTimes(_, _, _)
MergeParagraphsTimes(paras, row, n) ==
    IF n = 0 THEN paras
    ELSE MergeParagraphsTimes(MergeParagraphs(paras, row), row, n - 1)

replace_merge_fields(doc, row) ==
    [body |-> [i \in 1..Len(doc.body) |-> MergeElement(doc.body[i], row)],
     header |-> MergeParagraphsTimes(doc.header, row, Sections(doc)),
     footer |-> MergeParagraphsTimes(doc.footer, row, Sections(doc))]

\* the paragraphs of the cells of a table, row by row
TableParagraphs(tbl) ==
    Concat([r \in 1..Len(tbl.cells) |->
               Concat([c \in 1..Len(tbl.cells[r]) |-> CellParagraphs(tbl.cells[r][c])])])

\* the paragraphs replace_merge_fields visits, in the order it visits them
DriverScope(doc) ==
    Paragraphs(doc)
        \o Concat([i \in 1..Len(Tables(doc)) |-> TableParagraphs(Tables(doc)[i])])
        \o doc.header \o doc.footer

\* replace_merge_fields raises: it has no handler, so what a paragraph raises
\* reaches its caller
MergeRaises(doc, row) ==
    \E i \in 1..Len(DriverScope(doc)) : DriverRaises(DriverScope(doc)[i], row)

----------------------------------------------------------------------------
(* Copying blocks into the final document: the section-break path *)

\* the run copy of generate_single_word, body paragraphs and cell paragraphs
CopyRunFull(run) ==
    [NewRun(run.text) EXCEPT !.fmt = [@ EXCEPT
        !.bold = IF run.fmt.bold # None THEN run.fmt.bold ELSE @,
        !.italic = IF run.fmt.italic # None THEN run.fmt.italic ELSE @,
        !.underline = IF run.fmt.underline # None THEN run.fmt.underline ELSE @,
        !.font_size = IF TruthySize(run.fmt.font_size) THEN run.fmt.font_size ELSE @,
        !.font_name = IF TruthyName(run.fmt.font_name) THEN run.fmt.font_name ELSE @,
        !.font_color = IF TruthyColor(run.fmt.font_color) THEN run.fmt.font_color ELSE @]]

CopyParagraphFull(para) ==
    Para([i \in 1..Len(para.runs) |-> CopyRunFull(para.runs[i])],
         para.style, para.alignment)

\* str.strip() leaves nothing
IsBlank(text) == \A i \in 1..Len(text) : text[i] = " "

\* a cell as add_table creates it: one paragraph without runs
EmptyCell == <<Para(<<>>, "Normal", None)>>

\* new_cell.text = "": one paragraph holding one empty run
CellWithText(text) == <<Para(<<NewRun(text)>>, "Normal", None)>>

\* one paragraph of a cell copied (copy: its runs copied, its style and its
\* alignment): into the cell's first paragraph when it is the source's first,
\* else into a new paragraph
CopyCellParagraph(new_cell, para_idx, copy) ==
    IF para_idx = 0
    THEN [new_cell EXCEPT ![1] = [@ EXCEPT !.alignment = copy.alignment,
                                           !.style = copy.style,
                                           !.runs = @ \o copy.runs]]
    ELSE Append(new_cell, copy)

\* the loop over cell.paragraphs: a paragraph with text or runs is copied
RECURSIVE CopyCellParagraphs(_, _, _)
CopyCellParagraphs(src, para_idx, new_cell) ==
    IF para_idx >= Len(src) THEN new_cell
    ELSE IF ~IsBlank(ParagraphText(src[para_idx + 1])) \/ Len(src[para_idx + 1].runs) > 0
         THEN Let(CopyCellParagraph(new_cell, para_idx, CopyParagraphFull(src[para_idx + 1])),
                  LAMBDA cell : CopyCellParagraphs(src, para_idx + 1, cell))
         ELSE CopyCellParagraphs(src, para_idx + 1, new_cell)

CopyCellFull(cell) == CopyCellParagraphs(CellParagraphs(cell), 0, CellWithText(<<>>))

\* variant: the new table is created with rows and columns exchanged
NewTableTransposed(nrows, ncols) ==
    Table(ncols, nrows, [r \in 1..ncols |-> [c \in 1..nrows |-> EmptyCell]], "TableNormal")

\* final_doc.add_table(rows, cols)
NewTable(nrows, ncols) ==
    Table(nrows, ncols, [r \in 1..nrows |-> [c \in 1..ncols |-> EmptyCell]], "TableNormal")

\* rows and columns of the source that the new table has too
CopyTableFull(tbl) ==
    LET new_table == NewTable(tbl.nrows, tbl.ncols)
    IN  [new_table EXCEPT
            !.style = IF tbl.style # None THEN tbl.style ELSE @,
            !.cells = [r \in 1..Len(@) |-> [c \in 1..Len(@[r]) |->
                          IF r <= Len(tbl.cells) /\ c <= Len(tbl.cells[r])
                          THEN CopyCellFull(tbl.cells[r][c]) ELSE @[r][c]]]]

\* the section break of add_section: a paragraph that ends the section before it
SectionBreak == [Para(<<>>, "Normal", None) EXCEPT !.brk = "section"]

\* the blocks of one processed document appended in body order
RECURSIVE AppendBlocksFull(_, _, _)
AppendBlocksFull(final_body, src_body, i) ==
    IF i > Len(src_body) THEN final_body
    ELSE LET element == src_body[i]
             next_body ==
                 IF element.kind = "p"
                 THEN InsertBeforeSectPr(final_body, CopyParagraphFull(element))
                 ELSE IF element.kind = "tbl"
                      THEN InsertBeforeSectPr(final_body, CopyTableFull(element))
                      ELSE final_body
         IN  Let(next_body, LAMBDA body : AppendBlocksFull(body, src_body, i + 1))

----------------------------------------------------------------------------
(* Copying blocks into the final document: the page-break path *)

\* the run copy of generate_single_word_fallback
CopyRunBasic(run) ==
    [NewRun(run.text) EXCEPT !.fmt = [@ EXCEPT
        !.bold = IF run.fmt.bold # None THEN run.fmt.bold ELSE @,
        !.italic = IF run.fmt.italic # None THEN run.fmt.italic ELSE @,
        !.underline = IF run.fmt.underline # None THEN run.fmt.underline ELSE @]]

CopyParagraphBasic(para) ==
    Para([i \in 1..Len(para.runs) |-> CopyRunBasic(para.runs[i])],
         para.style, para.alignment)

\* cell.text: the paragraph texts joined by newlines
RECURSIVE JoinLines(_)
JoinLines(paras) ==
    IF paras = <<>> THEN <<>>
    ELSE IF Len(paras) = 1 THEN ParagraphText(paras[1])
         ELSE ParagraphText(paras[1]) \o <<"\n">> \o JoinLines(Tail(paras))

CellText(cell) == JoinLines(CellParagraphs(cell))

CopyTableBasic(tbl) ==
    LET new_table == NewTable(tbl.nrows, tbl.ncols)
    IN  [new_table EXCEPT
            !.cells = [r \in 1..Len(@) |-> [c \in 1..Len(@[r]) |->
                          IF r <= Len(tbl.cells) /\ c <= Len(tbl.cells[r])
                          THEN CellWithText(CellText(tbl.cells[r][c])) ELSE @[r][c]]]]

\* the page break paragraph built from XML
PageBreak == [Para(<<NewRun(<<>>)>>, "Normal", None) EXCEPT !.brk = "page"]

RECURSIVE InsertAll(_, _, _)
InsertAll(body, els, i) ==
    IF i > Len(els) THEN body
    ELSE Let(InsertBeforeSectPr(body, els[i]), LAMBDA next_body : InsertAll(next_body, els, i + 1))

\* one more document: the page break, then its paragraphs, then its tables
CopiesBasic(doc) ==
    LET paras == Paragraphs(doc)
        tbls == Tables(doc)
    IN  [i \in 1..Len(paras) |-> CopyParagraphBasic(paras[i])]
            \o [i \in 1..Len(tbls) |-> CopyTableBasic(tbls[i])]

AppendDocBasic(final_body, doc) ==
    Let(CopiesBasic(doc),
        LAMBDA copies : Let(AppendLast(final_body, PageBreak),
                            LAMBDA with_break : InsertAll(with_break, copies, 1)))

----------------------------------------------------------------------------
(* Template files and data sets *)

\* template_path = None
NoPath == <<>>

P1 == <<"t", "1", ".", "d", "o", "c", "x">>

P2 == <<"t", "2", ".", "D", "O", "C", "X">>

P3 == <<"n", ".", "t", "x", "t">>

UploadPaths == {P1, P2, P3}

\* templates of the merges that start with a template loaded
PNested == <<"t", "3", ".", "d", "o", "c", "x">>

PUnreadable == <<"t", "4", ".", "d", "o", "c", "x">>

PGaps == <<"t", "5", ".", "d", "o", "c", "x">>

TemplatePaths == {P1, P2, PNested, PUnreadable, PGaps}

PSections == <<"t", "6", ".", "d", "o", "c", "x">>

\* the paths of all Word documents there are
DocumentPaths == TemplatePaths \cup {PSections}

Bold == [Unset EXCEPT !.bold = "True"]

R(text, fmt) == [text |-> text, fmt |-> fmt]

T1 ==
    [body |->
        << Para(<<R(<<"D", " ">>, Unset), R(Tok(<<"a">>), Bold), R(<<",">>, Unset)>>,
                "Normal", None),
           Table(1, 2,
                 << << <<Para(<<R(Tok(<<"k">>), Unset)>>, "Normal", None)>>,
                       <<Para(<<>>, "Normal", None),
                         Para(<<R(<<"x">>, Bold), R(Tok(<<"b">>), Unset)>>, "Normal", "CENTER")>>
                    >> >>,
                 "Grid"),
           Para(<<R(OpenBraces, Unset), R(<<"k">>, Bold), R(CloseBraces, Unset)>>,
                "Title", "CENTER"),
           SectPr >>,
     header |-> <<Para(<<R(Tok(<<"k">>), Unset)>>, "Header", None)>>,
     footer |-> <<Para(<<R(<<"p">>, Unset)>>, "Footer", None)>>]

T2 ==
    [body |->
        << Table(2, 1,
                 << << <<Para(<<R(Tok(<<"a">>) \o Tok(<<"k">>), Bold)>>, "Normal", None)>> >>,
                    << <<Para(<<R(<<"x", " ">>, Unset)>>, "Normal", None)>> >> >>,
                 None),
           Para(<<R(Tok(<<"a">>), Unset), R(<<" ", "x">>, Bold)>>, "Normal", None),
           SectPr >>,
     header |-> <<>>,
     footer |-> <<>>]

\* a template with a table nested in a cell of a table
TNested ==
    [body |->
        << Para(<<R(Tok(<<"a">>), Unset)>>, "Normal", None),
           Table(1, 1,
                 << << << Para(<<R(Tok(<<"k">>), Bold)>>, "Normal", None),
                          Table(1, 1,
                                << << <<Para(<<R(<<"x">>, Unset), R(Tok(<<"a">>), Bold)>>,
                                             "Normal", None)>> >> >>,
                                "Grid") >> >> >>,
                 "Grid"),
           SectPr >>,
     header |-> <<Para(<<R(Tok(<<"k">>), Unset)>>, "Header", None)>>,
     footer |-> <<Para(<<R(Tok(<<"a">>), Unset)>>, "Footer", None)>>]

\* a template with a run whose font size cannot be read
TUnreadable ==
    [body |->
        << Para(<<R(<<"x">>, [Unset EXCEPT !.font_size = MalformedSize]),
                  R(Tok(<<"a">>), Bold)>>, "Normal", None),
           Para(<<R(Tok(<<"k">>), Unset)>>, "Normal", None),
           SectPr >>,
     header |-> <<>>,
     footer |-> <<>>]

\* a template with a table cell that has an empty paragraph between two others
TGaps ==
    [body |->
        << Table(1, 1,
                 << << << Para(<<R(<<"x">>, Bold)>>, "Normal", None),
                          Para(<<>>, "Normal", None),
                          Para(<<R(Tok(<<"a">>), Unset), R(<<"y">>, Bold)>>, "Normal", None)
                       >> >> >>,
                 "Grid"),
           Para(<<R(Tok(<<"k">>), Unset)>>, "Normal", None),
           SectPr >>,
     header |-> <<>>,
     footer |-> <<>>]

\* a template of two sections that share their header and footer
TSections ==
    [body |->
        << Para(<<R(<<"x">>, Unset)>>, "Normal", None),
           [Para(<<>>, "Normal", None) EXCEPT !.brk = "section"],
           Para(<<R(Tok(<<"a">>), Bold)>>, "Normal", None),
           SectPr >>,
     header |-> <<Para(<<R(Tok(<<"k">>), Unset)>>, "Header", None)>>,
     footer |-> <<Para(<<R(<<"p">>, Unset), R(Tok(<<"a">>), Unset)>>, "Footer", None)>>]

\* the document python-docx opens when the path is None: its built-in blank one
DefaultTemplate == [body |-> <<SectPr>>, header |-> <<>>, footer |-> <<>>]

Lower(c) ==
    IF c = "D" THEN "d" ELSE IF c = "O" THEN "o" ELSE IF c = "C" THEN "c"
    ELSE IF c = "X" THEN "x" ELSE c

LowerText(text) == [i \in 1..Len(text) |-> Lower(text[i])]

EndsWith(text, suffix) ==
    Len(text) >= Len(suffix)
        /\ Slice(text, Len(text) - Len(suffix), Len(text)) = suffix

DocxExt == <<".", "d", "o", "c", "x">>

PdfExt == <<".", "p", "d", "f">>

\* Document(path) succeeds: no path given, or a file that is there and is a
\* Word document
Readable(path, existing) ==
    path = NoPath \/ (path \in existing /\ path \in DocumentPaths)

\* Document(path)
Document(path) ==
    IF path = NoPath THEN DefaultTemplate
    ELSE IF path = P1 THEN T1
    ELSE IF path = PNested THEN TNested
    ELSE IF path = PUnreadable THEN TUnreadable
    ELSE IF path = PGaps THEN TGaps
    ELSE IF path = PSections THEN TSections
    ELSE T2

\* the rows load_data builds: every row has every header as a key
Row(k, a) == (<<"k">> :> k) @@ (<<"a">> :> a)

RowCycle == <<Row(<<"x">>, <<"v">>), Row(<<>>, <<"o", "}">>)>>

\* up to MaxRecords records, which take the rows of RowCycle in turn
DataSets ==
    {[i \in 1..n |-> RowCycle[((i + first) % Len(RowCycle)) + 1]] :
        n \in 1..MaxRecords, first \in 1..Len(RowCycle)}

\* rows with a value that is itself a token, and one without
TokenRows == {Row(Tok(<<"a">>), <<"v">>), Row(<<"x">>, Tok(<<"k">>)), Row(<<"x">>, <<"v">>)}

\* one or two such records
TokenDataSets == UNION {[1..n -> TokenRows] : n \in 1..2}

----------------------------------------------------------------------------
(* File names of the SEPARATE output *)

NameLimit == 50

Digits == <<"0", "1", "2", "3", "4", "5", "6", "7", "8", "9">>

\* str(n), n >= 0
RECURSIVE IntToStr(_)
IntToStr(n) ==
    IF n < 10 THEN <<Digits[n + 1]>>
    ELSE IntToStr(n \div 10) \o <<Digits[(n % 10) + 1]>>

\* f"record_{index+1}"
RecordName(index) == <<"r", "e", "c", "o", "r", "d", "_">> \o IntToStr(index + 1)

InvalidChars == {"<", ">", ":", "\"", "/", "\\", "|", "?", "*"}

\* re.sub(r'[<>:"/\\|?*]', '_', text)
Sanitize(text) ==
    [i \in 1..Len(text) |-> IF text[i] \in InvalidChars THEN "_" ELSE text[i]]

\* str.strip()
RECURSIVE Strip(_)
Strip(text) ==
    IF text = <<>> THEN <<>>
    ELSE IF Head(text) = " " THEN Strip(Tail(text))
    ELSE IF text[Len(text)] = " " THEN Strip(SubSeq(text, 1, Len(text) - 1))
    ELSE text

Min(a, b) == IF a < b THEN a ELSE b

\* the first header of the workbook
FirstKey == <<"k">>

\* the value the file is named after: that of the first column header, else
\* the first value of the row, else record_N
FirstValue(row, header, index) ==
    IF header # <<>> /\ header \in DOMAIN row THEN row[header]
    ELSE IF DOMAIN row # {} THEN row[FirstKey] ELSE RecordName(index)

SafeFilename(first_value, index) ==
    LET stripped == Strip(Sanitize(first_value))
        cut == Slice(stripped, 0, Min(Len(stripped), NameLimit))
    IN  IF cut = <<>> THEN RecordName(index) ELSE cut

\* offset of the last "." of a name, -1 when it has none
RECURSIVE LastDot(_, _)
LastDot(name, i) ==
    IF i < 0 THEN -1 ELSE IF name[i + 1] = "." THEN i ELSE LastDot(name, i - 1)

\* os.path.splitext(name)[0]: a name made of leading dots only has no extension
SplitextRoot(name) ==
    LET dot == LastDot(name, Len(name) - 1)
    IN  IF dot <= 0 \/ \A i \in 0..(dot - 1) : name[i + 1] = "." THEN name
        ELSE Slice(name, 0, dot)

\* variant: a name that is taken is used all the same
DedupeOverwrite(existing, original_path, output_path, counter) == output_path

\* the loop "while os.path.exists(output_path)"
RECURSIVE Dedupe(_, _, _, _)
Dedupe(existing, original_path, output_path, counter) ==
    IF output_path \in existing
    THEN Let(SplitextRoot(original_path) \o <<"_">> \o IntToStr(counter) \o DocxExt,
             LAMBDA renamed : Dedupe(existing, original_path, renamed, counter + 1))
    ELSE output_path

\* str.replace(old, new)
RECURSIVE ReplaceFrom(_, _, _, _)
ReplaceFrom(text, old, new, pos) ==
    IF pos + Len(old) > Len(text) THEN Slice(text, pos, Len(text))
    ELSE IF Slice(text, pos, pos + Len(old)) = old
         THEN new \o ReplaceFrom(text, old, new, pos + Len(old))
         ELSE <<text[pos + 1]>> \o ReplaceFrom(text, old, new, pos + 1)

ReplaceAll(text, old, new) == ReplaceFrom(text, old, new, 0)

----------------------------------------------------------------------------
(* Records whose first values are equal, are empty, are longer than the     *)
(* limit, or clash once they are cleaned, cut or renamed                    *)

LongA == [i \in 1..(NameLimit + 1) |-> "a"]

LongB == [i \in 1..NameLimit |-> "a"] \o <<"b">>

FirstValues ==
    {<<"x">>, <<>>, <<" ", "x">>, <<"<">>, <<">">>, <<"x", "_", "1">>, LongA, LongB}

NameRows == {Row(k, <<"v">>) : k \in FirstValues}

\* doc = Document(self.template_path); self.replace_merge_fields(doc, row_data),
\* tabulated over the templates and the rows of the data sets
ProcessedDocs ==
    [path \in {NoPath} \cup DocumentPaths |->
        [row_data \in {RowCycle[i] : i \in 1..Len(RowCycle)} \cup NameRows \cup TokenRows |->
            replace_merge_fields(Document(path), row_data)]]

\* variant: the template document is opened once and merged again for every
\* record, so that it holds the values of the first record from then on
ProcessedDocShared(path, row_data) ==
    ProcessedDocs[path][IF data # <<>> THEN data[1] ELSE row_data]

ProcessedDoc(path, row_data) == ProcessedDocs[path][row_data]

\* the same two calls raise, tabulated alike
ProcessRaises ==
    [path \in {NoPath} \cup DocumentPaths |->
        [row_data \in {RowCycle[i] : i \in 1..Len(RowCycle)} \cup NameRows \cup TokenRows |->
            MergeRaises(Document(path), row_data)]]

\* every record of rows gets its document: the template opens and no merge raises
Processable(path, existing, rows) ==
    /\ Readable(path, existing)
    /\ \A i \in 1..Len(rows) : ~ProcessRaises[path][rows[i]]

----------------------------------------------------------------------------
(* The generators.  Each returns its return value (result), the files it    *)
(* has written at its output path (output: file name -> file, a file being  *)
(* its type and the document in it) and the path it took (via).             *)

NoOutput == <<>>

Failure == [result |-> FALSE, output |-> NoOutput, via |-> "none"]

WordFile(doc) == [type |-> "docx", doc |-> doc]

PdfFile(doc) == [type |-> "pdf", doc |-> doc]

\* the name of the file a single-document call writes
OutName == <<"o", "u", "t">>

\* final_doc.add_section(WD_SECTION_START.NEW_PAGE)
HasSectPr(body) == \E i \in 1..Len(body) : body[i].kind = "sectPr"

AddSection(body) ==
    InsertBeforeSectPr(IF HasSectPr(body) THEN body ELSE Append(body, SectPr),
                       SectionBreak)

\* variant: every record's header and footer replace those of the final document
RECURSIVE CombineFullWithHeaders(_, _, _, _)
CombineFullWithHeaders(final_doc, path, rows, i) ==
    IF i > Len(rows) THEN final_doc
    ELSE Let(ProcessedDoc(path, rows[i]),
             LAMBDA processed_doc :
                 Let(AddSection(final_doc.body),
                     LAMBDA with_section :
                         Let([final_doc EXCEPT
                                 !.body = AppendBlocksFull(with_section, processed_doc.body, 1),
                                 !.header = processed_doc.header,
                                 !.footer = processed_doc.footer],
                             LAMBDA doc : CombineFullWithHeaders(doc, path, rows, i + 1))))

\* the loop over self.data[1:] of generate_single_word
RECURSIVE CombineFull(_, _, _, _)
CombineFull(final_doc, path, rows, i) ==
    IF i > Len(rows) THEN final_doc
    ELSE Let(ProcessedDoc(path, rows[i]),
             LAMBDA processed_doc :
                 Let(AddSection(final_doc.body),
                     LAMBDA with_section :
                         Let([final_doc EXCEPT
                                 !.body = AppendBlocksFull(with_section, processed_doc.body, 1)],
                             LAMBDA doc : CombineFull(doc, path, rows, i + 1))))

\* the loop over all_processed_docs[1:] of generate_single_word_fallback
RECURSIVE CombineBasic(_, _, _)
CombineBasic(final_doc, docs, i) ==
    IF i > Len(docs) THEN final_doc
    ELSE Let([final_doc EXCEPT !.body = AppendDocBasic(@, docs[i])],
             LAMBDA doc : CombineBasic(doc, docs, i + 1))

generate_single_word_fallback(path, existing, rows) ==
    IF rows # <<>> /\ ~Processable(path, existing, rows) THEN Failure
    ELSE Let([i \in 1..Len(rows) |-> ProcessedDoc(path, rows[i])],
             LAMBDA all_processed_docs :
                 IF all_processed_docs = <<>> THEN Failure
                 ELSE [result |-> TRUE,
                       output |-> (OutName :> WordFile(
                                      CombineBasic(all_processed_docs[1], all_processed_docs, 2))),
                       via |-> "fallback"])

\* raises: an exception leaves the section-break path before it has saved
generate_single_word(path, existing, rows, raises) ==
    IF path = NoPath \/ rows = <<>> \/ ~Processable(path, existing, rows) \/ raises
    THEN generate_single_word_fallback(path, existing, rows)
    ELSE [result |-> TRUE,
          output |-> (OutName :> WordFile(
                         Let(ProcessedDoc(path, rows[1]),
                             LAMBDA final_doc : CombineFull(final_doc, path, rows, 2)))),
          via |-> "primary"]

\* the loop over self.data of generate_multiple_word; dir is the output folder
RECURSIVE SaveEach(_, _, _, _, _)
SaveEach(dir, path, rows, header, index) ==
    IF index >= Len(rows) THEN dir
    ELSE LET row_data == rows[index + 1]
             processed_doc == ProcessedDoc(path, row_data)
             safe_filename == SafeFilename(FirstValue(row_data, header, index), index)
         IN  Let(safe_filename \o DocxExt,
                 LAMBDA original_path :
                     Let(Dedupe(DOMAIN dir, original_path, original_path, 1),
                         LAMBDA output_path :
                             Let((output_path :> WordFile(processed_doc)) @@ dir,
                                 LAMBDA saved : SaveEach(saved, path, rows, header, index + 1))))

generate_multiple_word(path, existing, rows, header) ==
    IF path = NoPath \/ rows = <<>> \/ ~Processable(path, existing, rows) THEN Failure
    ELSE [result |-> TRUE,
          output |-> SaveEach(NoOutput, path, rows, header, 0),
          via |-> "none"]

\* converts: convert_word_to_pdf_simple reports success
generate_single_pdf(path, existing, rows, raises, converts) ==
    Let(generate_single_word(path, existing, rows, raises),
        LAMBDA word :
            IF ~word.result THEN Failure
            ELSE IF converts
                 THEN [result |-> TRUE,
                       output |-> (OutName :> PdfFile(word.output[OutName].doc)),
                       via |-> word.via]
                 ELSE [result |-> FALSE, output |-> NoOutput, via |-> word.via])

PdfName(word_file) == ReplaceAll(word_file, DocxExt, PdfExt)

\* converted: the Word files whose conversion reports success; when two of them
\* get one PDF name the later of the listing replaces the earlier
generate_multiple_pdf(path, existing, rows, header, converted) ==
    Let(generate_multiple_word(path, existing, rows, header),
        LAMBDA word :
            IF ~word.result THEN Failure
            ELSE Let(converted \cap DOMAIN word.output,
                     LAMBDA done :
                         [result |-> done # {},
                          output |-> [n \in {PdfName(w) : w \in done} |->
                                         PdfFile(word.output[
                                             CHOOSE w \in done : PdfName(w) = n].doc)],
                          via |-> "none"]))

Formats == {"single-word", "multiple-word", "single-pdf", "multiple-pdf", "other"}

process_merge(path, existing, rows, header, output_format, raises, converts, converted) ==
    IF path = NoPath \/ rows = <<>> THEN Failure
    ELSE IF output_format = "single-word"
         THEN generate_single_word(path, existing, rows, raises)
    ELSE IF output_format = "multiple-word"
         THEN generate_multiple_word(path, existing, rows, header)
    ELSE IF output_format = "single-pdf"
         THEN generate_single_pdf(path, existing, rows, raises, converts)
    ELSE IF output_format = "multiple-pdf"
         THEN generate_multiple_pdf(path, existing, rows, header, converted)
    ELSE Failure

----------------------------------------------------------------------------
(* Paragraphs and records the rebuilder is run on *)

\* run texts: whole tokens, pieces of tokens, braces that form no token, an
\* empty run
RunTexts ==
    {<<>>, <<"a", " ", "b">>, Tok(<<"a">>), OpenBraces, CloseBraces,
     <<"a">>, <<"}">>, <<"b", "}", "}", ",">>}

Palette ==
    << Unset,
       [Unset EXCEPT !.bold = "True"],
       [bold |-> "False", italic |-> "True", underline |-> None,
        font_name |-> "", font_size |-> "0", font_color |-> None],
       [bold |-> "True", italic |-> "False", underline |-> "True",
        font_name |-> "Arial", font_size |-> "152400", font_color |-> "FF0000"],
       [Unset EXCEPT !.underline = "False", !.font_name = "Arial"] >>

PaletteAt(i, shift) == Palette[((i - 1 + shift) % Len(Palette)) + 1]

MkParagraph(texts, shift) ==
    [runs |-> [i \in 1..Len(texts) |-> [text |-> texts[i], fmt |-> PaletteAt(i, shift)]],
     style |-> "Normal", alignment |-> None]

ParagraphInputs ==
    {MkParagraph(texts, shift) :
        texts \in UNION {[1..n -> RunTexts] : n \in 0..MaxRuns},
        shift \in 0..(PaletteShifts - 1)}

\* records: no field, a value, an empty value, a value that is itself a token
RowInputs ==
    { <<>>,
      (<<"a">> :> <<"J", "o">>),
      (<<"a">> :> <<>>) @@ (<<"b">> :> <<"v">>),
      (<<"a">> :> Tok(<<"b">>)) @@ (<<"b">> :> <<"v", " ">>) }

\* no document in the making
NoDoc == [body |-> <<>>, header |-> <<>>, footer |-> <<>>]

Idle == [path |-> "none", at |-> "idle", i |-> 0, j |-> 0]

\* the session under watch has uploaded nothing; rejected: its last merge
\* since its last upload was rejected for missing files
NoSession == [template |-> <<>>, data |-> <<>>, rejected |-> FALSE, evicted |-> FALSE]

\* WordSplitter.__init__.  document: for every paragraph of the document the
\* number of page breaks in its runs; call: the method called last, asked:
\* its start_page and end_page, returned: what it returned, which is the
\* pair of _pages_to_paragraphs or the (start_paragraph, end_paragraph) of
\* every page of get_page_thumbnails
NoSplitter ==
    [document |-> <<>>, loaded |-> FALSE, loads |-> 0,
     total_pages |-> 0, page_breaks |-> <<>>,
     call |-> "none", asked |-> <<0, 0>>, returned |-> <<>>]

\* no call of convert_word_to_pdf_simple made
NoConversion ==
    [system |-> "Linux", word_path |-> <<>>, status |-> "idle", tried |-> <<>>,
     raised |-> FALSE]

\* no call of generate_single_word under way, none of the resolver made
InitCalls ==
    /\ pc = Idle
    /\ steps = <<>>
    /\ assembled = NoDoc
    /\ processed_docs = <<>>
    /\ asked_position = 0
    /\ found_info = RunInfoNone
    /\ formatted_run = NewRun(<<>>)
    /\ failed_attr = None
    /\ conversion = NoConversion
    /\ processors = <<>>
    /\ session = NoSession
    /\ splitter = NoSplitter

\* MailMergeProcessor.__init__, no file uploaded, no call made
InitProcessor ==
    /\ template_path = NoPath
    /\ data = <<>>
    /\ first_column_header = <<>>
    /\ files = {}
    /\ op = "none"
    /\ entry = "direct"
    /\ result = FALSE
    /\ output = NoOutput
    /\ via = "none"
    /\ InitCalls

InitRebuild ==
    /\ paragraph \in ParagraphInputs
    /\ origParagraph = paragraph
    /\ data_row \in RowInputs
    /\ phase = "init"
    /\ InitProcessor

\* replace_merge_fields_advanced called on the paragraph
Rebuild ==
    /\ phase = "init"
    /\ paragraph' = replace_merge_fields_advanced(paragraph, data_row)
    /\ phase' = "rebuilt"
    /\ UNCHANGED <<origParagraph, data_row, pvars, ovars, avars, xvars, fvars>>

\* the paragraph visited by replace_merge_fields
Drive ==
    /\ phase = "init"
    /\ paragraph' = DriverParagraph(paragraph, data_row)
    /\ phase' = "driven"
    /\ UNCHANGED <<origParagraph, data_row, pvars, ovars, avars, xvars, fvars>>

NextRebuild == Rebuild \/ Drive

SpecRebuild == InitRebuild /\ [][NextRebuild]_vars

----------------------------------------------------------------------------
(* The processor: uploads, loads and merges in any order *)

Init ==
    /\ paragraph = MkParagraph(<<>>, 0)
    /\ origParagraph = paragraph
    /\ data_row = <<>>
    /\ phase = "init"
    /\ InitProcessor

Returned(name, how, r) ==
    \E v \in {r} :
        /\ op' = name
        /\ entry' = how
        /\ result' = v.result
        /\ output' = v.output
        /\ via' = v.via

\* file.save(filepath) of the upload route
Upload(path) ==
    /\ files' = files \cup {path}
    /\ Returned("upload", "direct", [result |-> TRUE, output |-> NoOutput, via |-> "none"])
    /\ UNCHANGED <<rvars, avars, xvars, fvars, template_path, data, first_column_header>>

LoadTemplate(path) ==
    LET remaining == IF template_path # NoPath THEN files \ {template_path} ELSE files
        ok == /\ path \in remaining
              /\ EndsWith(LowerText(path), DocxExt)
              /\ Readable(path, remaining)
    IN  /\ files' = remaining
        /\ template_path' = IF ok THEN path ELSE template_path
        /\ Returned("load_template", "direct",
                    [result |-> ok, output |-> NoOutput, via |-> "none"])
        /\ UNCHANGED <<rvars, avars, xvars, fvars, data, first_column_header>>

\* a workbook with the header row k, a and the rows given
LoadData(rows) ==
    /\ data' = rows
    /\ first_column_header' = FirstKey
    /\ Returned("load_data", "direct", [result |-> TRUE, output |-> NoOutput, via |-> "none"])
    /\ UNCHANGED <<rvars, avars, xvars, fvars, template_path, files>>

\* a workbook without data rows, or no workbook at all
LoadDataFails ==
    /\ Returned("load_data", "direct", Failure)
    /\ UNCHANGED <<rvars, avars, xvars, fvars, pvars>>

GenerateSingleWord(raises) ==
    /\ Returned("single-word", "direct",
                generate_single_word(template_path, files, data, raises))
    /\ UNCHANGED <<rvars, avars, xvars, fvars, pvars>>

GenerateMultipleWord ==
    /\ Returned("multiple-word", "direct",
                generate_multiple_word(template_path, files, data, first_column_header))
    /\ UNCHANGED <<rvars, avars, xvars, fvars, pvars>>

GenerateSinglePdf(raises, converts) ==
    /\ Returned("single-pdf", "direct",
                generate_single_pdf(template_path, files, data, raises, converts))
    /\ UNCHANGED <<rvars, avars, xvars, fvars, pvars>>

\* the Word files a multiple-word run writes, of which some convert
WordNames ==
    DOMAIN generate_multiple_word(template_path, files, data, first_column_header).output

GenerateMultiplePdf(converted) ==
    /\ Returned("multiple-pdf", "direct",
                generate_multiple_pdf(template_path, files, data, first_column_header,
                                      converted))
    /\ UNCHANGED <<rvars, avars, xvars, fvars, pvars>>

\* the outcomes of the environment that the format's generator depends on
Raises(output_format) ==
    IF output_format \in {"single-word", "single-pdf"} THEN BOOLEAN ELSE {FALSE}

Converts(output_format) ==
    IF output_format = "single-pdf" THEN BOOLEAN ELSE {FALSE}

ProcessMerge(output_format) ==
    /\ \E raises \in Raises(output_format), converts \in Converts(output_format) :
        \E converted \in SUBSET (IF output_format = "multiple-pdf" THEN WordNames ELSE {}) :
            Returned(output_format, "process_merge",
                     process_merge(template_path, files, data, first_column_header,
                                   output_format, raises, converts, converted))
    /\ UNCHANGED <<rvars, avars, xvars, fvars, pvars>>

Next ==
    \/ \E path \in UploadPaths : Upload(path)
    \/ \E path \in UploadPaths : LoadTemplate(path)
    \/ \E rows \in DataSets : LoadData(rows)
    \/ LoadDataFails
    \/ \E raises \in BOOLEAN : GenerateSingleWord(raises)
    \/ GenerateMultipleWord
    \/ \E raises \in BOOLEAN, converts \in BOOLEAN : GenerateSinglePdf(raises, converts)
    \/ \E converted \in SUBSET WordNames : GenerateMultiplePdf(converted)
    \/ \E output_format \in Formats : ProcessMerge(output_format)

Spec == Init /\ [][Next]_vars

----------------------------------------------------------------------------
(* The merges of a processor that has a template and records loaded *)

InitLoaded ==
    /\ paragraph = MkParagraph(<<>>, 0)
    /\ origParagraph = paragraph
    /\ data_row = <<>>
    /\ phase = "init"
    /\ template_path \in TemplatePaths
    /\ files = {template_path}
    /\ data \in DataSets
    /\ first_column_header = FirstKey
    /\ op = "none"
    /\ entry = "direct"
    /\ result = FALSE
    /\ output = NoOutput
    /\ via = "none"
    /\ InitCalls

NextLoaded ==
    \/ \E raises \in BOOLEAN : GenerateSingleWord(raises)
    \/ GenerateMultipleWord
    \/ \E raises \in BOOLEAN, converts \in BOOLEAN : GenerateSinglePdf(raises, converts)
    \/ \E converted \in SUBSET WordNames : GenerateMultiplePdf(converted)
    \/ \E output_format \in Formats : ProcessMerge(output_format)

SpecLoaded == InitLoaded /\ [][NextLoaded]_vars

----------------------------------------------------------------------------
(* The merges of records whose values hold tokens, sections sharing a header *)

InitDriver ==
    /\ paragraph = MkParagraph(<<>>, 0)
    /\ origParagraph = paragraph
    /\ data_row = <<>>
    /\ phase = "init"
    /\ template_path \in {P1, PNested, PSections}
    /\ files = {template_path}
    /\ data \in TokenDataSets
    /\ first_column_header = FirstKey
    /\ op = "none"
    /\ entry = "direct"
    /\ result = FALSE
    /\ output = NoOutput
    /\ via = "none"
    /\ InitCalls

SpecDriver == InitDriver /\ [][NextLoaded]_vars

----------------------------------------------------------------------------
(* Separate output on the records of NameRows *)

InitSeparate ==
    /\ paragraph = MkParagraph(<<>>, 0)
    /\ origParagraph = paragraph
    /\ data_row = <<>>
    /\ phase = "init"
    /\ template_path = P1
    /\ files = {template_path}
    /\ data \in UNION {[1..n -> NameRows] : n \in 1..MaxRecords}
    /\ first_column_header = FirstKey
    /\ op = "none"
    /\ entry = "direct"
    /\ result = FALSE
    /\ output = NoOutput
    /\ via = "none"
    /\ InitCalls

NextSeparate == GenerateMultipleWord

SpecSeparate == InitSeparate /\ [][NextSeparate]_vars

----------------------------------------------------------------------------
(* One call of generate_single_word, step by step.  A step is the merge of  *)
(* a record, the insertion of a separator, the copy of one block, or the    *)
(* save; steps is the log of the steps taken.                               *)

At(path, at, i, j) == [path |-> path, at |-> at, i |-> i, j |-> j]

\* what follows the last block of record i of n
AfterBlocks(path, i, n) ==
    IF i >= n THEN At(path, "save", i, 0)
    ELSE IF path = "primary" THEN At(path, "merge", i + 1, 0)
         ELSE At(path, "break", i + 1, 0)

\* variant: the save follows the separator of the last record at once
NextStepSavesEarly(path, at, i, j, nblocks, n) ==
    IF at = "start" THEN At(path, "merge", 1, 0)
    ELSE IF at = "merge"
         THEN IF path = "primary"
              THEN IF i > 1 THEN At(path, "break", i, 0) ELSE AfterBlocks(path, i, n)
              ELSE IF i < n THEN At(path, "merge", i + 1, 0)
                   ELSE IF n > 1 THEN At(path, "break", 2, 0) ELSE At(path, "save", i, 0)
         ELSE IF at = "break"
              THEN IF nblocks > 0 /\ i < n THEN At(path, "block", i, 1)
                   ELSE AfterBlocks(path, i, n)
              ELSE IF at = "block"
                   THEN IF j < nblocks THEN At(path, "block", i, j + 1)
                        ELSE AfterBlocks(path, i, n)
                   ELSE At(path, "done", i, 0)

\* the control flow of the two loops: the step after step at of record i
\* (block j), for n records of nblocks blocks each
NextStep(path, at, i, j, nblocks, n) ==
    IF at = "start" THEN At(path, "merge", 1, 0)
    ELSE IF at = "merge"
         THEN IF path = "primary"
              THEN IF i > 1 THEN At(path, "break", i, 0) ELSE AfterBlocks(path, i, n)
              ELSE IF i < n THEN At(path, "merge", i + 1, 0)
                   ELSE IF n > 1 THEN At(path, "break", 2, 0) ELSE At(path, "save", i, 0)
         ELSE IF at = "break"
              THEN IF nblocks > 0 THEN At(path, "block", i, 1)
                   ELSE AfterBlocks(path, i, n)
              ELSE IF at = "block"
                   THEN IF j < nblocks THEN At(path, "block", i, j + 1)
                        ELSE AfterBlocks(path, i, n)
                   ELSE At(path, "done", i, 0)

\* processed_doc of the record being appended
CurrentDoc ==
    IF pc.path = "primary" THEN processed_docs[1] ELSE processed_docs[pc.i]

\* the copies the record being appended adds, in the order they are added
CurrentCopies ==
    IF pc.path = "primary"
    THEN LET blocks == SelectSeq(CurrentDoc.body, LAMBDA el : el.kind # "sectPr")
         IN  [k \in 1..Len(blocks) |->
                 IF blocks[k].kind = "p" THEN CopyParagraphFull(blocks[k])
                 ELSE CopyTableFull(blocks[k])]
    ELSE CopiesBasic(CurrentDoc)

Following ==
    NextStep(pc.path, pc.at, pc.i, pc.j,
             IF pc.at \in {"break", "block"} THEN Len(CurrentCopies) ELSE 0,
             Len(data))

\* the call: the precondition is tested inside the try block
StepCall ==
    /\ pc = Idle
    /\ pc' = At("primary", "start", 0, 0)
    /\ UNCHANGED <<rvars, pvars, ovars, fvars, xvars, steps, assembled, processed_docs>>

\* Document(self.template_path), then replace_merge_fields
StepMerge ==
    /\ pc.at \in {"start", "merge", "block"}
    /\ Following.at = "merge"
    /\ pc.path = "primary" => template_path # NoPath /\ data # <<>>
    /\ Following.i <= Len(data)
    /\ Readable(template_path, files)
    /\ ~ProcessRaises[template_path][data[Following.i]]
    /\ \E doc \in {ProcessedDoc(template_path, data[Following.i])} :
          IF pc.path = "primary"
          THEN /\ assembled' = IF Following.i = 1 THEN doc ELSE assembled
               /\ processed_docs' = IF Following.i = 1 THEN <<>> ELSE <<doc>>
          ELSE /\ processed_docs' = Append(processed_docs, doc)
               /\ assembled' = IF Following.i = Len(data)
                               THEN processed_docs'[1] ELSE assembled
    /\ pc' = Following
    /\ steps' = Append(steps, Following)
    /\ UNCHANGED <<rvars, pvars, ovars, fvars, xvars>>

\* final_doc.add_section(...), or body.append(page_break_p)
StepBreak ==
    /\ pc.at \in {"merge", "block", "break"}
    /\ Following.at = "break"
    /\ assembled' = [assembled EXCEPT !.body =
                        IF pc.path = "primary" THEN AddSection(@)
                        ELSE AppendLast(@, PageBreak)]
    /\ pc' = Following
    /\ steps' = Append(steps, Following)
    /\ UNCHANGED <<rvars, pvars, ovars, fvars, xvars, processed_docs>>

\* one paragraph or one table of the record copied to the end of final_doc
StepBlock ==
    /\ pc.at \in {"break", "block"}
    /\ Following.at = "block"
    /\ assembled' = [assembled EXCEPT !.body =
                        InsertBeforeSectPr(@, CurrentCopies[Following.j])]
    /\ pc' = Following
    /\ steps' = Append(steps, Following)
    /\ UNCHANGED <<rvars, pvars, ovars, fvars, xvars, processed_docs>>

\* final_doc.save(output_path); return True
StepSave ==
    /\ pc.at \in {"merge", "break", "block"}
    /\ Following.at = "save"
    /\ pc' = Following
    /\ steps' = Append(steps, Following)
    /\ Returned("single-word", "direct",
                [result |-> TRUE, output |-> (OutName :> WordFile(assembled)),
                 via |-> pc.path])
    /\ UNCHANGED <<rvars, pvars, fvars, xvars, assembled, processed_docs>>

\* an exception on the section-break path: the page-break path starts afresh
StepFail ==
    /\ pc.path = "primary"
    /\ pc.at \in {"start", "merge", "break", "block"}
    /\ pc' = At("fallback", "start", 0, 0)
    /\ assembled' = NoDoc
    /\ processed_docs' = <<>>
    /\ UNCHANGED <<rvars, pvars, ovars, fvars, xvars, steps>>

\* an exception on the page-break path: return False
StepFallbackFail ==
    /\ pc.path = "fallback"
    /\ pc.at \in {"start", "merge"}
    /\ Following.at = "merge"
    /\ \/ Following.i > Len(data)
       \/ ~Readable(template_path, files)
       \/ ProcessRaises[template_path][data[Following.i]]
    /\ pc' = At("fallback", "failed", pc.i, 0)
    /\ Returned("single-word", "direct", Failure)
    /\ UNCHANGED <<rvars, pvars, fvars, xvars, steps, assembled, processed_docs>>

NextSteps ==
    \/ StepCall
    \/ StepMerge
    \/ StepBreak
    \/ StepBlock
    \/ StepSave
    \/ StepFail
    \/ StepFallbackFail

SpecSteps == InitLoaded /\ [][NextSteps]_vars

----------------------------------------------------------------------------
(* The resolver and _apply_formatting called on a paragraph's runs, as the  *)
(* rebuilder calls them for one fragment                                    *)

\* the offsets asked for: every offset of the text, one before, two after
Offsets(p) == (0 - 1)..(Len(ParagraphText(p)) + 1)

\* the runs _apply_formatting is called on: a new run, a run with direct formatting
DestRuns == {NewRun(<<"x">>), [text |-> <<"x">>, fmt |-> Palette[4]]}

InitResolve ==
    /\ paragraph \in ParagraphInputs \cup {TUnreadable.body[1]}
    /\ origParagraph = paragraph
    /\ data_row = <<>>
    /\ phase = "init"
    /\ InitProcessor

\* run_info = self._find_run_for_position(paragraph, text_position)
ResolveAt(text_position) ==
    /\ phase = "init"
    /\ ~ResolverRaises(paragraph, text_position)
    /\ asked_position' = text_position
    /\ found_info' = find_run_for_position(paragraph, text_position)
    /\ phase' = "resolved"
    /\ UNCHANGED <<paragraph, origParagraph, data_row, formatted_run, failed_attr,
                   pvars, ovars, avars, xvars>>

\* the same call raising while it reads the run's attributes
ResolveRaisesAt(text_position) ==
    /\ phase = "init"
    /\ ResolverRaises(paragraph, text_position)
    /\ asked_position' = text_position
    /\ phase' = "raised"
    /\ UNCHANGED <<paragraph, origParagraph, data_row, found_info, formatted_run,
                   failed_attr, pvars, ovars, avars, xvars>>

\* new_run = paragraph.add_run(text)
AddRun(run) ==
    /\ phase = "resolved"
    /\ ~found_info.isNone
    /\ formatted_run' = run
    /\ phase' = "added"
    /\ UNCHANGED <<paragraph, origParagraph, data_row, asked_position, found_info,
                   failed_attr, pvars, ovars, avars, xvars>>

\* self._apply_formatting(new_run, formatting)
ApplyFormatting ==
    /\ phase = "added"
    /\ formatted_run' = apply_formatting(formatted_run, found_info.formatting)
    /\ phase' = "applied"
    /\ UNCHANGED <<paragraph, origParagraph, data_row, asked_position, found_info,
                   failed_attr, pvars, ovars, avars, xvars>>

\* the same call, the assignment of one attribute raising
ApplyFormattingRaises(failing) ==
    /\ phase = "added"
    /\ Attempted(found_info.formatting, failing)
    /\ formatted_run' = apply_formatting_raising(formatted_run, found_info.formatting, failing)
    /\ failed_attr' = failing
    /\ phase' = "partly"
    /\ UNCHANGED <<paragraph, origParagraph, data_row, asked_position, found_info,
                   pvars, ovars, avars, xvars>>

NextResolve ==
    \/ \E text_position \in Offsets(paragraph) : ResolveAt(text_position)
    \/ \E text_position \in Offsets(paragraph) : ResolveRaisesAt(text_position)
    \/ \E run \in DestRuns : AddRun(run)
    \/ ApplyFormatting
    \/ \E failing \in Attrs : ApplyFormattingRaises(failing)

SpecResolve == InitResolve /\ [][NextResolve]_vars

----------------------------------------------------------------------------
(* convert_word_to_pdf_simple: the conversion strategies tried in turn.  A  *)
(* strategy is an external tool: it returns True, returns False or raises.  *)

Systems == {"Linux", "Windows", "Darwin"}

\* the methods called, in the order of the calls
Strategies(system) ==
    IF system = "Linux"
    THEN <<"convert_docx_to_pdf_libreoffice_enhanced", "convert_docx_to_pdf_pandoc_linux",
           "convert_docx_to_pdf_html_linux_enhanced", "create_basic_text_pdf_from_docx_enhanced">>
    ELSE <<"convert_docx_to_pdf_pandoc", "convert_docx_to_pdf_with_word",
           "convert_docx_to_pdf_libreoffice", "convert_docx_to_pdf_direct",
           "convert_docx_to_pdf_html_fallback", "create_basic_text_pdf_from_docx">>

Outcomes == {"True", "False", "raises"}

\* variant: the except clause returns True
StatusAfterLenient(system, tried, outcome) ==
    IF outcome \in {"True", "raises"} THEN "success"
    ELSE IF Len(tried) + 1 = Len(Strategies(system)) THEN "failure"
         ELSE "running"

\* where the call is after the next strategy has returned or raised
StatusAfter(system, tried, outcome) ==
    IF outcome = "True" THEN "success"
    ELSE IF outcome = "raises" THEN "failure"
         ELSE IF Len(tried) + 1 = Len(Strategies(system)) THEN "failure"
              ELSE "running"

\* the call: os.path.getsize(word_path) raises when the Word file is missing
ConvertCall(system, word_path, exists) ==
    /\ conversion.status # "running"
    /\ conversion' = [system |-> system, word_path |-> word_path,
                      status |-> IF exists THEN "running" ELSE "failure",
                      tried |-> <<>>, raised |-> ~exists]
    /\ UNCHANGED <<rvars, pvars, ovars, avars, fvars, processors, session, splitter>>

\* the next strategy is called
TryStrategy(outcome) ==
    /\ conversion.status = "running"
    /\ conversion' =
          [conversion EXCEPT
              !.tried = Append(@, [name |-> Strategies(conversion.system)[Len(@) + 1],
                                   outcome |-> outcome]),
              !.raised = (outcome = "raises"),
              !.status = StatusAfter(conversion.system, conversion.tried, outcome)]
    /\ UNCHANGED <<rvars, pvars, ovars, avars, fvars, processors, session, splitter>>

NextConvert ==
    \/ \E system \in Systems, word_path \in WordNames, exists \in BOOLEAN :
          ConvertCall(system, word_path, exists)
    \/ \E outcome \in Outcomes : TryStrategy(outcome)

SpecConvert == InitLoaded /\ [][NextConvert]_vars

----------------------------------------------------------------------------
(* The routes.  processors maps session ids to processors; the processor    *)
(* variables are those of the session under watch, "s"; the other sessions  *)
(* are all "o", only their place in the dict matters.                       *)

CleanupThreshold == 50

CleanupCount == 25

\* cleanup_old_processors: the keys that are left
CleanedKeys(keys) ==
    IF Len(keys) > CleanupThreshold THEN SubSeq(keys, CleanupCount + 1, Len(keys)) ELSE keys

\* cleanup_old_processors cleans up and deletes the processor at place k
Evicts(keys, k) == Len(keys) > CleanupThreshold /\ k <= CleanupCount

Evicted(keys, id) == \E k \in 1..Len(keys) : keys[k] = id /\ Evicts(keys, k)

\* get_processor: the session's processor is created unless it is there
WithKey(keys, id) ==
    IF \E k \in 1..Len(keys) : keys[k] = id THEN keys ELSE Append(keys, id)

\* MailMergeProcessor.cleanup on the processor under watch: its template
\* file removed, its state reset; st is <<template_path, data, header, files>>
CleanedUp(evicted) ==
    IF evicted
    THEN [template_path |-> NoPath, data |-> <<>>, first_column_header |-> <<>>,
          files |-> files \ {template_path}]
    ELSE [template_path |-> template_path, data |-> data,
          first_column_header |-> first_column_header, files |-> files]

\* upload_template by the session under watch; the file name is a new one
RouteUploadTemplate(path) ==
    /\ path # template_path
    /\ \E st \in {CleanedUp(Evicted(processors, "s"))} :
          LET saved == st.files \cup {path}
              remaining == IF st.template_path # NoPath
                           THEN saved \ {st.template_path} ELSE saved
              ok == /\ EndsWith(LowerText(path), DocxExt)
                    /\ Readable(path, remaining)
          IN  /\ template_path' = IF ok THEN path ELSE st.template_path
              /\ files' = IF ok THEN remaining ELSE remaining \ {path}
              /\ data' = st.data
              /\ first_column_header' = st.first_column_header
              /\ session' = [session EXCEPT
                                !.template = IF ok THEN path ELSE @,
                                !.rejected = FALSE,
                                !.evicted = @ \/ Evicted(processors, "s")]
              /\ Returned("upload_template", "route",
                          [result |-> ok, output |-> NoOutput, via |-> "none"])
    /\ processors' = WithKey(CleanedKeys(processors), "s")
    /\ UNCHANGED <<rvars, avars, fvars, conversion, splitter>>

\* upload_data by the session under watch
RouteUploadData(rows) ==
    /\ \E st \in {CleanedUp(Evicted(processors, "s"))} :
          /\ template_path' = st.template_path
          /\ files' = st.files
          /\ data' = rows
          /\ first_column_header' = FirstKey
    /\ session' = [session EXCEPT !.data = rows,
                                  !.rejected = FALSE,
                                  !.evicted = @ \/ Evicted(processors, "s")]
    /\ Returned("upload_data", "route", [result |-> TRUE, output |-> NoOutput, via |-> "none"])
    /\ processors' = WithKey(CleanedKeys(processors), "s")
    /\ UNCHANGED <<rvars, avars, fvars, conversion, splitter>>

\* an upload by a session that has no processor yet
RouteOtherUpload ==
    /\ \E st \in {CleanedUp(Evicted(processors, "s"))} :
          /\ template_path' = st.template_path
          /\ files' = st.files
          /\ data' = st.data
          /\ first_column_header' = st.first_column_header
    /\ session' = [session EXCEPT !.evicted = @ \/ Evicted(processors, "s")]
    /\ processors' = Append(CleanedKeys(processors), "o")
    /\ UNCHANGED <<rvars, avars, fvars, ovars, conversion, splitter>>

\* an upload by the other session whose processor is at place k
RouteOtherAgain(k) ==
    /\ k \in 1..Len(processors)
    /\ processors[k] = "o"
    /\ \E st \in {CleanedUp(Evicted(processors, "s"))} :
          /\ template_path' = st.template_path
          /\ files' = st.files
          /\ data' = st.data
          /\ first_column_header' = st.first_column_header
    /\ session' = [session EXCEPT !.evicted = @ \/ Evicted(processors, "s")]
    /\ processors' = IF Evicts(processors, k) THEN Append(CleanedKeys(processors), "o")
                     ELSE CleanedKeys(processors)
    /\ UNCHANGED <<rvars, avars, fvars, ovars, conversion, splitter>>

\* process_merge (route) by the session under watch
RouteProcessMerge(raises) ==
    /\ processors' = WithKey(processors, "s")
    /\ session' = [session EXCEPT !.rejected = (template_path = NoPath \/ data = <<>>)]
    /\ Returned("single-word", "route",
                process_merge(template_path, files, data, first_column_header,
                              "single-word", raises, FALSE, {}))
    /\ UNCHANGED <<rvars, avars, fvars, pvars, conversion, splitter>>

SessionRows == <<Row(<<"x">>, <<"v">>)>>

NextRoutes ==
    \/ \E path \in {P1, P2} : RouteUploadTemplate(path)
    \/ RouteUploadData(SessionRows)
    \/ RouteOtherUpload
    \/ \E k \in {1, CleanupCount + 1} : RouteOtherAgain(k)
    \/ \E raises \in BOOLEAN : RouteProcessMerge(raises)

SpecRoutes == Init /\ [][NextRoutes]_vars

----------------------------------------------------------------------------
(* The Word splitter: pages of a document and their paragraphs *)

\* if paragraph_count % 40 == 0
PageParagraphs == 40

MaxParagraphs == 2

MaxBreaks == 2

MaxPage == 3

MaxLoads == 2

\* short documents, every paragraph with up to MaxBreaks page breaks
ShortDocuments == UNION {[1..n -> 0..MaxBreaks] : n \in 0..MaxParagraphs}

\* documents long enough for the estimate, with no or one page break
LongDocuments ==
    {[i \in 1..n |-> IF i = at THEN c ELSE 0] :
        n \in {PageParagraphs, 2 * PageParagraphs},
        at \in {1, PageParagraphs},
        c \in 0..1}

SplitterDocuments == ShortDocuments \cup LongDocuments

PageInputs == (0 - 1)..MaxPage

Max(a, b) == IF a > b THEN a ELSE b

\* self.page_breaks.append(paragraph_count) for every page break in the runs
\* of the paragraphs first..last, in the order of the paragraphs
RECURSIVE ExplicitBreaks(_, _, _)
ExplicitBreaks(document, first, last) ==
    IF first > last THEN <<>>
    ELSE IF first = last THEN [k \in 1..document[first] |-> first]
    ELSE ExplicitBreaks(document, first, (first + last) \div 2)
             \o ExplicitBreaks(document, (first + last) \div 2 + 1, last)

\* the loop over self.document.paragraphs of _analyze_document_structure:
\* a page for every page break and one for every 40th paragraph
AnalyzeParagraphs(document, page_breaks) ==
    Let(ExplicitBreaks(document, 1, Len(document)),
        LAMBDA breaks :
            [estimated_pages |->
                 1 + Len(breaks)
                   + Cardinality({paragraph_count \in 1..Len(document) :
                                      paragraph_count % PageParagraphs = 0}),
             page_breaks |-> page_breaks \o breaks])

\* the breaks estimated when no explicit break was found
EstimatedBreaks(length, total_pages) ==
    [page \in 1..(total_pages - 1) |-> page * Max(length \div total_pages, 1)]

\* _analyze_document_structure: total_pages and page_breaks; page_breaks is
\* the list the splitter holds already
analyze_document_structure(document, page_breaks) ==
    Let(AnalyzeParagraphs(document, page_breaks),
        LAMBDA found :
            [total_pages |-> Max(found.estimated_pages, 1),
             page_breaks |->
                 IF found.page_breaks = <<>> /\ Max(found.estimated_pages, 1) > 1
                 THEN EstimatedBreaks(Len(document), Max(found.estimated_pages, 1))
                 ELSE found.page_breaks])

\* current_break of get_page_thumbnails for the page page_num
CurrentBreak(length, page_breaks, page_num) ==
    IF page_num - 1 < Len(page_breaks) THEN page_breaks[page_num] ELSE length

\* get_page_thumbnails: start_paragraph and end_paragraph of every page
get_page_thumbnails(length, total_pages, page_breaks) ==
    IF total_pages <= 1 THEN << <<0, length - 1>> >>
    ELSE [page_num \in 1..total_pages |->
             << IF page_num = 1 THEN 0
                ELSE CurrentBreak(length, page_breaks, page_num - 1),
                Min(CurrentBreak(length, page_breaks, page_num) - 1, length - 1) >>]

\* start_para of _pages_to_paragraphs before the ranges are made valid
StartPara(page_breaks, start_page) ==
    IF start_page > 1 /\ Min(start_page - 2, Len(page_breaks) - 1) >= 0
    THEN page_breaks[Min(start_page - 2, Len(page_breaks) - 1) + 1]
    ELSE 0

\* end_para of _pages_to_paragraphs before the ranges are made valid
EndPara(length, total_pages, page_breaks, end_page) ==
    IF end_page < total_pages /\ Min(end_page - 1, Len(page_breaks) - 1) >= 0
    THEN page_breaks[Min(end_page - 1, Len(page_breaks) - 1) + 1] - 1
    ELSE length - 1

\* _pages_to_paragraphs
pages_to_paragraphs(length, total_pages, page_breaks, start_page, end_page) ==
    IF total_pages <= 1 THEN <<0, length - 1>>
    ELSE Let(Max(0, StartPara(page_breaks, start_page)),
             LAMBDA start_para :
                 << start_para,
                    Max(start_para,
                        Min(length - 1,
                            EndPara(length, total_pages, page_breaks, end_page))) >>)

\* load_document; the breaks found are added to the list the splitter holds
LoadDocument(document) ==
    /\ splitter.loads < MaxLoads
    /\ splitter' =
           Let(analyze_document_structure(document, splitter.page_breaks),
               LAMBDA found :
                   [splitter EXCEPT !.document = document,
                                    !.loaded = TRUE,
                                    !.loads = @ + 1,
                                    !.total_pages = found.total_pages,
                                    !.page_breaks = found.page_breaks,
                                    !.call = "load_document",
                                    !.asked = <<0, 0>>,
                                    !.returned = <<>>])
    /\ UNCHANGED <<rvars, pvars, ovars, avars, fvars, conversion, processors, session>>

PagesToParagraphs(start_page, end_page) ==
    /\ splitter.loaded
    /\ splitter' =
           [splitter EXCEPT
               !.call = "_pages_to_paragraphs",
               !.asked = <<start_page, end_page>>,
               !.returned = pages_to_paragraphs(Len(splitter.document), splitter.total_pages,
                                             splitter.page_breaks, start_page, end_page)]
    /\ UNCHANGED <<rvars, pvars, ovars, avars, fvars, conversion, processors, session>>

GetPageThumbnails ==
    /\ splitter.loaded
    /\ splitter' =
           [splitter EXCEPT
               !.call = "get_page_thumbnails",
               !.asked = <<0, 0>>,
               !.returned = get_page_thumbnails(Len(splitter.document), splitter.total_pages,
                                             splitter.page_breaks)]
    /\ UNCHANGED <<rvars, pvars, ovars, avars, fvars, conversion, processors, session>>

NextSplitter ==
    \/ \E document \in SplitterDocuments : LoadDocument(document)
    \/ \E start_page \in PageInputs, end_page \in PageInputs :
           PagesToParagraphs(start_page, end_page)
    \/ GetPageThumbnails

SpecSplitter == Init /\ [][NextSplitter]_vars

----------------------------------------------------------------------------
(* What a token is, stated on the text and not by the scanner's search *)

\* text[s:e] is '{{' + one or more word characters + '}}'
IsToken(text, s, e) ==
    /\ e - s >= 5
    /\ e <= Len(text)
    /\ Slice(text, s, s + 2) = OpenBraces
    /\ Slice(text, e - 2, e) = CloseBraces
    /\ \A i \in (s + 2)..(e - 3) : IsWordChar(text[i + 1])

TokenSpans(text) ==
    {sp \in (0..Len(text)) \X (0..Len(text)) : IsToken(text, sp[1], sp[2])}

TokenEndAt(text, s) == CHOOSE e \in 0..Len(text) : IsToken(text, s, e)

StartsToken(text, s) == \E e \in 0..Len(text) : IsToken(text, s, e)

\* the text with every token span replaced by the record's value ("" if absent)
RECURSIVE Substituted(_, _, _)
Substituted(text, row, pos) ==
    IF pos >= Len(text) THEN <<>>
    ELSE IF StartsToken(text, pos)
         THEN LET e == TokenEndAt(text, pos)
                  name == Slice(text, pos + 2, e - 2)
              IN  (IF name \in DOMAIN row THEN row[name] ELSE <<>>)
                      \o Substituted(text, row, e)
         ELSE <<text[pos + 1]>> \o Substituted(text, row, pos + 1)

InToken(text, i) ==
    \E sp \in TokenSpans(text) : sp[1] <= i /\ i < sp[2]

\* the text with the characters of every token span removed
RECURSIVE StripTokens(_, _)
StripTokens(text, pos) ==
    IF pos >= Len(text) THEN <<>>
    ELSE (IF InToken(text, pos) THEN <<>> ELSE <<text[pos + 1]>>)
             \o StripTokens(text, pos + 1)

IsBrace(c) == c \in {"{", "}"}

HasBrace(text) == \E i \in 1..Len(text) : IsBrace(text[i])

OrigText == ParagraphText(origParagraph)

NewText == ParagraphText(paragraph)

Called == phase \in {"rebuilt", "driven"}

\* offset at which run j of a paragraph starts
RECURSIVE RunStart(_, _)
RunStart(p, j) ==
    IF j <= 1 THEN 0 ELSE RunStart(p, j - 1) + Len(p.runs[j - 1].text)

\* a token of the original text lies in more than one run
TokenAcrossRuns ==
    \E sp \in TokenSpans(OrigText) : \A i \in 1..Len(origParagraph.runs) :
        ~(/\ RunStart(origParagraph, i) <= sp[1]
          /\ sp[2] <= RunStart(origParagraph, i) + Len(origParagraph.runs[i].text))

----------------------------------------------------------------------------
(* C1.  Text correctness of the rebuild: the run texts of the rebuilt       *)
(* paragraph, joined, are the original text with every token span replaced  *)
(* by the record's value for its field ("" when the field is absent), all   *)
(* other characters unchanged and in order.                                 *)
C1_TextCorrect ==
    phase = "rebuilt" => NewText = Substituted(OrigText, data_row, 0)

C1_Witness ==
    /\ phase = "rebuilt"
    /\ Cardinality(TokenSpans(OrigText)) = 2
    /\ TokenAcrossRuns
    /\ \E sp \in TokenSpans(OrigText) :
           Slice(OrigText, sp[1] + 2, sp[2] - 2) \in DOMAIN data_row
    /\ NewText # OrigText
    /\ NewText # <<>>

(* C2 as claimed.  After the rebuild the text holds no '{{' + word          *)
(* characters + '}}', whatever the original text and the record values.     *)
C2_NoLeftoverTokens ==
    phase = "rebuilt" => TokenSpans(NewText) = {}

\* every brace of the text belongs to a token
BracesOnlyInTokens(text) ==
    \A i \in 0..(Len(text) - 1) : IsBrace(text[i + 1]) => InToken(text, i)

ValuesBraceFree(row) == \A f \in DOMAIN row : ~HasBrace(row[f])

(* C2 as amended.  After the rebuild the text holds no token, provided the  *)
(* record's values hold no brace and the original text holds no brace       *)
(* outside its token spans.                                                 *)
C2_NoLeftoverWhenBraceFree ==
    (/\ phase = "rebuilt"
     /\ BracesOnlyInTokens(OrigText)
     /\ ValuesBraceFree(data_row))
        => TokenSpans(NewText) = {}

C2_Witness ==
    /\ phase = "rebuilt"
    /\ BracesOnlyInTokens(OrigText)
    /\ ValuesBraceFree(data_row)
    /\ Cardinality(TokenSpans(OrigText)) >= 2
    /\ DOMAIN data_row # {}
    /\ NewText # <<>>
    /\ TokenSpans(NewText) = {}

----------------------------------------------------------------------------
\* offset, in the rebuilt text, of the replacement of the token at [s, e)
RECURSIVE NewOffset(_, _, _, _)
NewOffset(text, row, s, pos) ==
    IF pos >= s THEN 0
    ELSE IF StartsToken(text, pos)
         THEN LET e == TokenEndAt(text, pos)
              IN  Len(Lookup(row, Slice(text, pos + 2, e - 2)))
                      + NewOffset(text, row, s, e)
         ELSE 1 + NewOffset(text, row, s, pos + 1)

(* C3.  Formatting blend: the run created for a token's replacement value   *)
(* carries exactly the formatting the resolver returns for the token's      *)
(* start offset in the original paragraph.                                  *)
C3_FormattingBlend ==
    phase = "rebuilt" =>
        \A sp \in TokenSpans(OrigText) :
            LET value == Lookup(data_row, Slice(OrigText, sp[1] + 2, sp[2] - 2))
                at == NewOffset(OrigText, data_row, sp[1], 0)
            IN  value # <<>> =>
                    \E j \in 1..Len(paragraph.runs) :
                        /\ RunStart(paragraph, j) = at
                        /\ paragraph.runs[j].text = value
                        /\ paragraph.runs[j].fmt
                               = find_run_for_position(origParagraph, sp[1]).formatting

\* the formatting a created run ends with: an empty font name and a zero font
\* size are not assigned
AsAssigned(formatting) ==
    [formatting EXCEPT
        !.font_name = IF formatting.font_name = "" THEN None ELSE @,
        !.font_size = IF formatting.font_size = "0" THEN None ELSE @]

\* the blend as the code has it
C3_BlendUpToFalsy ==
    phase = "rebuilt" =>
        \A sp \in TokenSpans(OrigText) :
            LET value == Lookup(data_row, Slice(OrigText, sp[1] + 2, sp[2] - 2))
                at == NewOffset(OrigText, data_row, sp[1], 0)
            IN  value # <<>> =>
                    \E j \in 1..Len(paragraph.runs) :
                        /\ RunStart(paragraph, j) = at
                        /\ paragraph.runs[j].text = value
                        /\ paragraph.runs[j].fmt
                               = AsAssigned(find_run_for_position(origParagraph, sp[1]).formatting)

----------------------------------------------------------------------------
(* C4.  No-op on token-free paragraphs: a paragraph whose text holds no     *)
(* token keeps its run list (number of runs, texts, formatting) through     *)
(* the rebuild and through the driver's visit.                              *)
C4_NoOpWithoutTokens ==
    (Called /\ TokenSpans(OrigText) = {}) => paragraph = origParagraph

C4_Witness ==
    /\ phase = "driven"
    /\ TokenSpans(OrigText) = {}
    /\ Contains(OrigText, OpenBraces)
    /\ Contains(OrigText, CloseBraces)
    /\ Len(origParagraph.runs) = 3
    /\ paragraph = origParagraph

(* C5.  Missing field value: when the tokens of the paragraph name fields   *)
(* that the record does not have, each is replaced by the empty string and  *)
(* the text around them is unchanged.                                       *)
C5_MissingFieldIsEmpty ==
    (/\ Called
     /\ \A sp \in TokenSpans(OrigText) :
            Slice(OrigText, sp[1] + 2, sp[2] - 2) \notin DOMAIN data_row)
        => NewText = StripTokens(OrigText, 0)

C5_Witness ==
    /\ phase = "driven"
    /\ DOMAIN data_row = {<<"a">>}
    /\ \E sp \in TokenSpans(OrigText) : sp[1] > 0 /\ sp[2] < Len(OrigText)
    /\ \A sp \in TokenSpans(OrigText) :
           Slice(OrigText, sp[1] + 2, sp[2] - 2) = <<"b">>
    /\ NewText = StripTokens(OrigText, 0)
    /\ NewText # OrigText

(* C6.  Malformed tokens are literal text: a paragraph with braces but no   *)
(* well-formed token is not matched by the scanner and keeps its text and   *)
(* its runs.                                                                *)
C6_MalformedIsLiteral ==
    (HasBrace(OrigText) /\ TokenSpans(OrigText) = {})
        => /\ finditer(OrigText) = <<>>
           /\ Called => (paragraph = origParagraph /\ NewText = OrigText)

C6_Witness ==
    /\ phase = "driven"
    /\ OrigText = OpenBraces \o CloseBraces
    /\ paragraph = origParagraph

----------------------------------------------------------------------------
(* Claims about the generators *)

\* the document of record i
Merged(i) == ProcessedDoc(template_path, data[i])

IsSeparator(el) == el.brk # "none"

IsContent(el) == el.kind # "sectPr"

\* the blocks of a body, its closing section properties left out
Blocks(body) == SelectSeq(body, IsContent)

NoSeparator(doc) == \A i \in 1..Len(doc.body) : ~IsSeparator(doc.body[i])

TemplateReady == template_path # NoPath /\ Readable(template_path, files) /\ data # <<>>

(* C7.  SEPARATE count: generate_multiple_word on N records writes N        *)
(* files, one per record, each file holding the document of its record and  *)
(* no page separator, whatever the first values of the records are.         *)
C7_SeparateCount ==
    (op = "multiple-word" /\ TemplateReady)
        => /\ result
           /\ Cardinality(DOMAIN output) = Len(data)
           /\ \A n \in DOMAIN output :
                  output[n].type = "docx" /\ NoSeparator(output[n].doc)
           /\ \A i \in 1..Len(data) :
                  Cardinality({n \in DOMAIN output : output[n].doc = Merged(i)})
                      = Cardinality({j \in 1..Len(data) : Merged(j) = Merged(i)})

C7_Witness ==
    /\ op = "multiple-word"
    /\ result
    /\ Len(data) = 3
    /\ data[1][FirstKey] = LongA
    /\ data[2][FirstKey] = LongB
    /\ data[3][FirstKey] = <<>>
    /\ Cardinality(DOMAIN output) = 3

\* the offsets of the separators of blocks, and the k-th of them (0 before the
\* first, past the end after the last)
SeparatorsOf(blocks) == {i \in 1..Len(blocks) : IsSeparator(blocks[i])}

SeparatorAt(blocks, k) ==
    IF k = 0 THEN 0
    ELSE IF k > Cardinality(SeparatorsOf(blocks)) THEN Len(blocks) + 1
    ELSE CHOOSE i \in SeparatorsOf(blocks) :
             Cardinality({j \in SeparatorsOf(blocks) : j <= i}) = k

\* the blocks between separator k-1 and separator k
Segment(blocks, k) ==
    SubSeq(blocks, SeparatorAt(blocks, k - 1) + 1, SeparatorAt(blocks, k) - 1)

\* the text of a block: of a paragraph its text, of a table its cells' texts
BlockText(el) ==
    IF el.kind = "p" THEN <<<<ParagraphText(el)>>>>
    ELSE [r \in 1..Len(el.cells) |->
             [c \in 1..Len(el.cells[r]) |-> CellText(el.cells[r][c])]]

ParagraphTexts(blocks) ==
    LET paras == SelectSeq(blocks, IsP) IN [i \in 1..Len(paras) |-> BlockText(paras[i])]

TableTexts(blocks) ==
    LET tbls == SelectSeq(blocks, IsTbl) IN [i \in 1..Len(tbls) |-> BlockText(tbls[i])]

\* segment k holds the paragraphs and the tables of record k
SegmentIsRecord(blocks, k) ==
    /\ ParagraphTexts(Segment(blocks, k)) = ParagraphTexts(Blocks(Merged(k).body))
    /\ TableTexts(Segment(blocks, k)) = TableTexts(Blocks(Merged(k).body))

SeparatorsBetweenRecords(blocks) ==
    /\ Cardinality(SeparatorsOf(blocks)) = Len(data) - 1
    /\ \A k \in 1..Len(data) : SegmentIsRecord(blocks, k)

(* C8.  COMBINED count: generate_single_word on N >= 1 records writes one   *)
(* document with N-1 page separators, separator k lying between the         *)
(* content of record k and that of record k+1, on the section-break path    *)
(* and on the page-break path alike.                                        *)
C8_SeparatorsBetweenRecords ==
    (op = "single-word" /\ result)
        => /\ DOMAIN output = {OutName}
           /\ SeparatorsBetweenRecords(Blocks(output[OutName].doc.body))

(* C8, the section-break path alone: there the separators lie between the   *)
(* records.                                                                 *)
C8_PrimarySeparators ==
    (op = "single-word" /\ result /\ via = "primary")
        => /\ DOMAIN output = {OutName}
           /\ SeparatorsBetweenRecords(Blocks(output[OutName].doc.body))

\* rows and columns of a table, as it states them and as its cells have them
Shape(tbl) ==
    <<tbl.nrows, tbl.ncols, Len(tbl.cells), [r \in 1..Len(tbl.cells) |-> Len(tbl.cells[r])]>>

Shapes(doc) == LET tbls == Tables(doc) IN [i \in 1..Len(tbls) |-> Shape(tbls[i])]

\* the shapes of the tables of the template, copies times over
RECURSIVE TemplateShapes(_)
TemplateShapes(copies) ==
    IF copies = 0 THEN <<>>
    ELSE TemplateShapes(copies - 1) \o Shapes(Document(template_path))

MergeOps == {"single-word", "multiple-word", "single-pdf", "multiple-pdf", "other"}

(* C9.  Table shape preservation: in every file a generator has written,    *)
(* the tables have the row counts and the column counts of the template's   *)
(* tables, once per record the file holds.                                  *)
C9_TableShape ==
    (op \in MergeOps /\ result)
        => \A n \in DOMAIN output :
               Shapes(output[n].doc)
                   = TemplateShapes(IF op \in {"single-word", "single-pdf"}
                                    THEN Len(data) ELSE 1)

C9_Witness ==
    /\ op = "single-word"
    /\ result
    /\ via = "fallback"
    /\ template_path = P1
    /\ Len(data) = 3
    /\ Len(Tables(output[OutName].doc)) = 3

(* C10.  Precondition rejection: with no template loaded or no records,     *)
(* every merge entry point returns failure and writes no file.              *)
C10_PreconditionRejected ==
    (op \in MergeOps /\ (template_path = NoPath \/ data = <<>>))
        => (~result /\ output = NoOutput)

(* C10, the entry points other than generate_single_word and                *)
(* generate_single_pdf called directly: these reject.                       *)
C10_OthersReject ==
    (/\ op \in MergeOps
     /\ entry = "process_merge" \/ op \in {"multiple-word", "multiple-pdf"}
     /\ template_path = NoPath \/ data = <<>>)
        => (~result /\ output = NoOutput)

----------------------------------------------------------------------------
(* Claims about the merge of one record *)

\* the paragraphs of the tables nested in the cells of a table
NestedParagraphs(tbl) ==
    Concat([r \in 1..Len(tbl.cells) |->
               Concat([c \in 1..Len(tbl.cells[r]) |->
                          Concat([t \in 1..Len(SelectSeq(tbl.cells[r][c], IsTbl)) |->
                                     TableParagraphs(SelectSeq(tbl.cells[r][c], IsTbl)[t])])])])

\* body paragraphs, cell paragraphs, header and footer paragraphs, and the
\* paragraphs of the cells of tables nested one level
CoverageScope(doc) ==
    DriverScope(doc)
        \o Concat([i \in 1..Len(Tables(doc)) |-> NestedParagraphs(Tables(doc)[i])])

Texts(paras) == [i \in 1..Len(paras) |-> ParagraphText(paras[i])]

SubstitutedTexts(texts, row) == [i \in 1..Len(texts) |-> Substituted(texts[i], row, 0)]

\* the paragraphs are those of the template with the tokens of one record of
\* data substituted, and none holds a token
Covered(merged, template) ==
    /\ \A i \in 1..Len(merged) : TokenSpans(merged[i]) = {}
    /\ \E r \in 1..Len(data) : merged = SubstitutedTexts(template, data[r])

(* C11.  Driver coverage: the merge of one record substitutes the tokens of *)
(* every body paragraph, of every paragraph of every cell of every table,   *)
(* the cells of a table nested in a cell included, and of every header and  *)
(* footer paragraph; no paragraph of that scope holds a token afterwards.   *)
C11_DriverCoverage ==
    (op = "multiple-word" /\ result)
        => \A n \in DOMAIN output :
               Covered(Texts(CoverageScope(output[n].doc)),
                       Texts(CoverageScope(Document(template_path))))

(* C11 without the nested tables: body, cells of the body's tables, header  *)
(* and footer are covered.                                                  *)
C11_TopLevelCoverage ==
    (op = "multiple-word" /\ result)
        => \A n \in DOMAIN output :
               Covered(Texts(DriverScope(output[n].doc)),
                       Texts(DriverScope(Document(template_path))))

----------------------------------------------------------------------------
(* Claims about the records of one merge *)

\* the merge of a fresh copy of the template with record i alone
Alone(i) == replace_merge_fields(Document(template_path), data[i])

IsRecordContent(el) == IsContent(el) /\ ~IsSeparator(el)

\* the paragraph texts of the documents of all records, record after record
AllParagraphTexts ==
    Concat([i \in 1..Len(data) |-> ParagraphTexts(Blocks(Alone(i).body))])

AllTableTexts ==
    Concat([i \in 1..Len(data) |-> TableTexts(Blocks(Alone(i).body))])

\* a combined document holds, for every record in turn, what the merge of the
\* template with that record alone gives
RecordsIndependent(body) ==
    /\ ParagraphTexts(SelectSeq(body, IsRecordContent)) = AllParagraphTexts
    /\ TableTexts(SelectSeq(body, IsRecordContent)) = AllTableTexts

(* C12.  Record independence: what a merge writes for record i is the       *)
(* merge of the template with record i alone, whatever records precede or   *)
(* follow it, in the separate documents and in the combined document; and   *)
(* no merge changes the stored template.                                    *)
C12_RecordIndependence ==
    /\ [](/\ (op \in {"multiple-word", "multiple-pdf"} /\ result)
               => \A n \in DOMAIN output :
                      \E i \in 1..Len(data) : output[n].doc = Alone(i)
          /\ (op = "multiple-word" /\ result)
               => \A i \in 1..Len(data) :
                      \E n \in DOMAIN output : output[n].doc = Alone(i)
          /\ (op \in {"single-word", "single-pdf"} /\ result)
               => \A n \in DOMAIN output : RecordsIndependent(output[n].doc.body))
    /\ [][op' \in MergeOps => (template_path' = template_path /\ files' = files)]_vars

C12_Witness ==
    /\ op = "single-word"
    /\ result
    /\ via = "primary"
    /\ template_path = P1
    /\ Len(data) = 3
    /\ data[1] # data[2]
    /\ Alone(1) # Alone(2)
    /\ RecordsIndependent(output[OutName].doc.body)

----------------------------------------------------------------------------
(* Claims about the formatting of the rebuilt paragraph *)

\* the direct formatting of the run that owns an offset of a paragraph's text
RunFmtAt(p, pos) == p.runs[ReadRunWalk(p.runs, pos, 1, 0)].fmt

\* the offsets of the original text that lie in no token
NonTokenOffsets == {i \in 0..(Len(OrigText) - 1) : ~InToken(OrigText, i)}

\* the start of the stretch of non-token text that holds offset i: the start
\* of the text or the end of the token before it
FragmentStart(text, i) ==
    CHOOSE s \in 0..i :
        /\ s = 0 \/ \E sp \in TokenSpans(text) : sp[2] = s
        /\ \A j \in s..i : ~InToken(text, j)

(* C13.  Non-token text keeps its original formatting: after the rebuild    *)
(* every character that was in no token lies in a run whose formatting is   *)
(* that of the original run that owned the character.                       *)
C13_NonTokenFormattingKept ==
    (phase = "rebuilt" /\ TokenSpans(OrigText) # {})
        => \A i \in NonTokenOffsets :
               RunFmtAt(paragraph, NewOffset(OrigText, data_row, i, 0))
                   = RunFmtAt(origParagraph, i)

(* C13 as the code has it: a stretch of non-token text becomes one run,     *)
(* which takes the formatting of the run that owned the stretch's first     *)
(* character (an empty font name and a zero font size are not assigned).    *)
C13_FragmentTakesFirstRun ==
    (phase = "rebuilt" /\ TokenSpans(OrigText) # {})
        => \A i \in NonTokenOffsets :
               RunFmtAt(paragraph, NewOffset(OrigText, data_row, i, 0))
                   = AsAssigned(RunFmtAt(origParagraph, FragmentStart(OrigText, i)))

----------------------------------------------------------------------------
(* Claims about failures *)

\* reading the formatting of a fragment raises in the merge of some record
FragmentFails ==
    \E i \in 1..Len(data) : MergeRaises(Document(template_path), data[i])

(* C14.  A failure at one fragment is absorbed: when resolving the          *)
(* formatting of a fragment raises, the merge still reports success and     *)
(* every paragraph has the text of all its fragments.                       *)
C14_FragmentFailureAbsorbed ==
    (op \in {"single-word", "multiple-word"} /\ TemplateReady /\ FragmentFails)
        => /\ result
           /\ op = "multiple-word"
                  => \A n \in DOMAIN output :
                         Covered(Texts(DriverScope(output[n].doc)),
                                 Texts(DriverScope(Document(template_path))))

\* the blocks of the combined document whose every block is a full styled copy
FullCopies ==
    {el \in {generate_single_word(template_path, files, data, FALSE)
                 .output[OutName].doc.body[k] :
                     k \in 1..Len(generate_single_word(template_path, files, data, FALSE)
                                      .output[OutName].doc.body)} : IsRecordContent(el)}

\* the offsets of the blocks of a body that are no full styled copy
ReducedBlocks(body) ==
    {k \in 1..Len(body) : IsRecordContent(body[k]) /\ body[k] \notin FullCopies}

(* C15.  A failure at one block is local: when the section-break path       *)
(* fails at a block, at most that block is a copy of reduced fidelity and   *)
(* every other block of the combined document is its full styled copy.      *)
C15_BlockFailureIsLocal ==
    (op = "single-word" /\ result /\ via = "fallback" /\ TemplateReady)
        => Cardinality(ReducedBlocks(output[OutName].doc.body)) <= 1

IsPageBreak(el) == el.brk = "page"

(* C16.  The fallback guarantees an output: with a template loaded and at   *)
(* least one record, generate_single_word returns success, and when it has  *)
(* taken the page-break path its document holds the paragraph texts of      *)
(* every record and a page-break marker for every record after the first.   *)
C16_FallbackGuarantee ==
    (op = "single-word" /\ template_path # NoPath /\ data # <<>>)
        => /\ result
           /\ via = "fallback"
                  => /\ ParagraphTexts(SelectSeq(output[OutName].doc.body, IsRecordContent))
                            = AllParagraphTexts
                     /\ Len(SelectSeq(output[OutName].doc.body, IsPageBreak))
                            = Len(data) - 1

(* C16 when every record's merge succeeds: then the page-break path gives   *)
(* its document.                                                            *)
C16_FallbackWhenMergeable ==
    (op = "single-word" /\ TemplateReady /\ ~FragmentFails)
        => /\ result
           /\ via = "fallback"
                  => /\ ParagraphTexts(SelectSeq(output[OutName].doc.body, IsRecordContent))
                            = AllParagraphTexts
                     /\ Len(SelectSeq(output[OutName].doc.body, IsPageBreak))
                            = Len(data) - 1

----------------------------------------------------------------------------
(* Claims about the order of the steps of one combined document *)

\* the steps of the path that is producing the output
PathSteps == SelectSeq(steps, LAMBDA e : e.path = pc.path)

StepRank(at) == IF at = "merge" THEN 1 ELSE IF at = "break" THEN 2 ELSE 3

\* the blocks one record adds
BlocksPerRecord == Len(Blocks(Document(template_path).body))

\* the separator and every block of record i are among the first b steps
AppendedBy(log, i, b) ==
    /\ \E a \in 1..b : log[a].at = "break" /\ log[a].i = i
    /\ \A j \in 1..BlocksPerRecord :
          \E a \in 1..b : log[a].at = "block" /\ log[a].i = i /\ log[a].j = j

\* merge i, then separator i, then the blocks of i, for every record after the first
RecordStepsInOrder(log) ==
    \A a \in 1..Len(log), b \in 1..Len(log) :
        a < b /\ log[a].i = log[b].i /\ log[a].i > 1 /\ log[b].at # "save"
            => /\ StepRank(log[a].at) <= StepRank(log[b].at)
               /\ log[b].at = "block" => \E c \in 1..b : log[c].at = "break" /\ log[c].i = log[b].i
               /\ log[b].at # "merge"

\* every separator and block of a record follows the merge of that record
MergedBeforeAppended(log) ==
    \A b \in 1..Len(log) :
        log[b].at \in {"break", "block"}
            => \E a \in 1..b : log[a].at = "merge" /\ log[a].i = log[b].i

\* the merge of record i + 1 begins when all blocks of record i are appended
MergeWaitsForBlocks(log) ==
    \A b \in 1..Len(log) :
        log[b].at = "merge" /\ log[b].i > 2 => AppendedBy(log, log[b].i - 1, b)

\* all merges come before the first separator
MergesComeFirst(log) ==
    \A a \in 1..Len(log), b \in 1..Len(log) :
        log[a].at = "merge" /\ log[b].at # "merge" => a < b

\* the separators and blocks of a record come before those of the next
AppendsInRecordOrder(log) ==
    \A a \in 1..Len(log), b \in 1..Len(log) :
        /\ log[a].at \in {"break", "block"}
        /\ log[b].at \in {"break", "block"}
        /\ log[a].i < log[b].i
        => a < b

\* the save comes after the blocks of every record, and last
SavedLast(log) ==
    \A b \in 1..Len(log) :
        log[b].at = "save"
            => /\ b = Len(log)
               /\ \A i \in 1..Len(data) :
                     /\ \E a \in 1..b : log[a].at = "merge" /\ log[a].i = i
                     /\ i > 1 => AppendedBy(log, i, b)

\* the steps end where the call ends: the saved file is the one the
\* generator returns on the same path
StepsAgree ==
    pc.at \in {"save", "failed"} =>
        LET r == generate_single_word(template_path, files, data, pc.path = "fallback")
        IN  /\ result = r.result
            /\ output = r.output
            /\ pc.at = "save" => via = r.via

\* C17 as stated: on the path that produces the output, record by record,
\* merge i, separator i, blocks of i, the merge of the next record not before
\* the last block of i, and the save after the blocks of the last record with
\* nothing after it.
C17_StepOrder ==
    /\ RecordStepsInOrder(PathSteps)
    /\ MergedBeforeAppended(PathSteps)
    /\ MergeWaitsForBlocks(PathSteps)
    /\ SavedLast(PathSteps)

\* C17, by path: the order of one record's steps and the place of the save
\* hold on both paths; the merge of the next record waits for the blocks of
\* the record before on the section-break path, while the page-break path
\* merges every record before it appends anything, and then appends record
\* by record.
C17_StepOrderByPath ==
    /\ RecordStepsInOrder(PathSteps)
    /\ MergedBeforeAppended(PathSteps)
    /\ AppendsInRecordOrder(PathSteps)
    /\ SavedLast(PathSteps)
    /\ pc.path = "primary" => MergeWaitsForBlocks(PathSteps)
    /\ pc.path = "fallback" => MergesComeFirst(PathSteps)

\* three records saved by the page-break path
C17_Witness ==
    /\ pc.path = "fallback"
    /\ pc.at = "save"
    /\ Len(data) = MaxRecords
    /\ BlocksPerRecord > 1

----------------------------------------------------------------------------
(* Claims about the order of the blocks of one combined document *)

\* kind and text of every block, in order
Outline(blocks) ==
    [k \in 1..Len(blocks) |-> [kind |-> blocks[k].kind, text |-> BlockText(blocks[k])]]

\* the blocks of the merged documents of records i, i + 1, ..., one after the other
RECURSIVE RecordOutlines(_)
RecordOutlines(i) ==
    IF i > Len(data) THEN <<>>
    ELSE Outline(Blocks(Alone(i).body)) \o RecordOutlines(i + 1)

\* the blocks of the combined document that are no separators
RecordBlocks(body) == SelectSeq(Blocks(body), LAMBDA el : ~IsSeparator(el))

\* a table between two paragraphs
TableBetweenParagraphs(blocks) ==
    \E a \in 1..Len(blocks), t \in 1..Len(blocks), b \in 1..Len(blocks) :
        a < t /\ t < b /\ blocks[a].kind = "p" /\ blocks[t].kind = "tbl" /\ blocks[b].kind = "p"

\* C18.  Block order of the combined document: the blocks of every record
\* stand in the document in the order they have in the record's merged
\* document, paragraphs and tables interleaved as in the template, on the
\* section-break path and on the page-break path alike.
C18_BlockOrder ==
    (op = "single-word" /\ result)
        => Outline(RecordBlocks(output[OutName].doc.body)) = RecordOutlines(1)

\* C18, the section-break path alone
C18_PrimaryBlockOrder ==
    (op = "single-word" /\ result /\ via = "primary")
        => Outline(RecordBlocks(output[OutName].doc.body)) = RecordOutlines(1)

----------------------------------------------------------------------------
(* Claims about the resolver *)

Resolved == phase \in {"resolved", "added", "applied"}

\* the runs whose interval [start, start + len) holds the offset
Owners(p, pos) ==
    {j \in 1..Len(p.runs) :
        RunStart(p, j) <= pos /\ pos < RunStart(p, j) + Len(p.runs[j].text)}

FormattingOf(run) == [isNone |-> FALSE, formatting |-> run.fmt]

\* C19.  _find_run_for_position returns the formatting of the one run whose
\* half-open interval holds the offset; an offset on a run boundary belongs
\* to the run that starts there and an empty run owns no offset; an offset
\* outside every run gives the first run's formatting, and a paragraph
\* without runs gives no formatting at all.
C19_ResolverOwner ==
    Resolved =>
        LET runs == origParagraph.runs
            owners == Owners(origParagraph, asked_position)
        IN  /\ Cardinality(owners) <= 1
            /\ \A j \in owners : found_info = FormattingOf(runs[j])
            /\ \A j \in 1..Len(runs) :
                  /\ asked_position = RunStart(origParagraph, j) /\ runs[j].text # <<>>
                        => found_info = FormattingOf(runs[j])
                  /\ runs[j].text = <<>> => j \notin owners
            /\ owners = {} /\ runs # <<>> => found_info = FormattingOf(runs[1])
            /\ runs = <<>> => found_info.isNone /\ found_info.formatting = Unset

\* an offset on the boundary of two runs of different formatting, an empty
\* run of a third formatting lying before the boundary
C19_Witness ==
    /\ Resolved
    /\ \E z \in 1..Len(origParagraph.runs), j \in 1..Len(origParagraph.runs) :
          /\ 1 < z /\ z < j
          /\ origParagraph.runs[z].text = <<>>
          /\ origParagraph.runs[j].text # <<>>
          /\ origParagraph.runs[1].text # <<>>
          /\ asked_position = RunStart(origParagraph, j)
          /\ origParagraph.runs[1].fmt # origParagraph.runs[j].fmt
          /\ origParagraph.runs[z].fmt # origParagraph.runs[j].fmt

\* an offset outside every run of a paragraph that has runs
C19_WitnessOutside ==
    /\ Resolved
    /\ origParagraph.runs # <<>>
    /\ asked_position > Len(ParagraphText(origParagraph))
    /\ found_info = FormattingOf(origParagraph.runs[1])

----------------------------------------------------------------------------
(* Claims about _apply_formatting *)

\* the attribute of the run is left as it was
Kept(attr) == formatted_run'.fmt[attr] = formatted_run.fmt[attr]

\* the attribute of the run is now the resolved one
Assigned(attr) == formatted_run'.fmt[attr] = found_info.formatting[attr]

\* C20.  When a resolved formatting is applied to a run, an attribute that
\* is unset in it is not assigned and the run keeps what it had, and an
\* attribute that is set in it, False for bold, italic and underline
\* included, is assigned with that value.
C20_SetIsAssigned ==
    [][phase' = "applied" =>
          \A attr \in Attrs :
              IF found_info.formatting[attr] = None THEN Kept(attr) ELSE Assigned(attr)]_vars

\* C20 as the code has it: unset attributes are never assigned; bold, italic
\* and underline are assigned whenever they are set, False included; font
\* name, size and colour are assigned when their value is true in Python,
\* so that an empty font name and a size of 0 are left unassigned.
C20_TruthyIsAssigned ==
    [][phase' = "applied" =>
          \A attr \in Attrs :
              LET v == found_info.formatting[attr]
              IN  IF v = None \/ (attr = "font_name" /\ v = "") \/ (attr = "font_size" /\ v = "0")
                  THEN Kept(attr) ELSE Assigned(attr)]_vars

----------------------------------------------------------------------------
(* Claims about a failing assignment in _apply_formatting *)

\* C21.  When the assignment of one attribute raises, that attribute alone
\* is skipped: every other attribute whose assignment the call makes, before
\* it and after it in the order of the assignments, has the resolved value.
C21_OnlyFailingSkipped ==
    [][phase' = "partly" =>
          \A attr \in Attrs :
              IF attr # failed_attr' /\ Attempted(found_info.formatting, attr)
              THEN Assigned(attr) ELSE Kept(attr)]_vars

\* C21 as the code has it: the attributes before the failing one are
\* assigned, the failing one and all after it are left as they were.
C21_FailingEndsTheCall ==
    [][phase' = "partly" =>
          \A attr \in Attrs :
              IF AttrIndex(attr) < AttrIndex(failed_attr')
                    /\ Attempted(found_info.formatting, attr)
              THEN Assigned(attr) ELSE Kept(attr)]_vars

----------------------------------------------------------------------------
(* Claims about the cells of the tables copied into the combined document *)

\* the texts of the runs of a paragraph that have text
RunTextsOf(p) ==
    LET runs == SelectSeq(p.runs, LAMBDA run : run.text # <<>>)
    IN  [k \in 1..Len(runs) |-> runs[k].text]

\* the paragraphs of a cell: the text of each and how it is split into runs
CellStructure(cell) ==
    LET paras == CellParagraphs(cell)
    IN  [k \in 1..Len(paras) |->
            [text |-> ParagraphText(paras[k]), runs |-> RunTextsOf(paras[k])]]

\* cell by cell, the copy has the paragraphs of the source
SameCells(copy, source) ==
    \A r \in 1..Len(source.cells) : \A c \in 1..Len(source.cells[r]) :
        CellStructure(copy.cells[r][c]) = CellStructure(source.cells[r][c])

\* the tables of the combined document that are the copies of record i's
CopiedTable(doc, i, t) == Tables(doc)[(i - 1) * Len(Tables(Alone(i))) + t]

CopiesKeepCells(doc) ==
    \A i \in 2..Len(data) : \A t \in 1..Len(Tables(Alone(i))) :
        SameCells(CopiedTable(doc, i, t), Tables(Alone(i))[t])

\* an empty paragraph follows another paragraph in a cell of the template
GapInCell ==
    \E t \in 1..Len(Tables(Document(template_path))) :
        LET tbl == Tables(Document(template_path))[t]
        IN  \E r \in 1..Len(tbl.cells) : \E c \in 1..Len(tbl.cells[r]) :
                \E k \in 2..Len(CellParagraphs(tbl.cells[r][c])) :
                    CellParagraphs(tbl.cells[r][c])[k].runs = <<>>

\* C22.  On the section-break path every cell of a copied table has as many
\* paragraphs as the cell it is copied from, with the same texts split into
\* the same run texts, empty paragraphs before or between the others
\* included.
C22_CellStructureKept ==
    (op = "single-word" /\ result /\ via = "primary")
        => CopiesKeepCells(output[OutName].doc)

\* C22 where no empty paragraph follows another paragraph of its cell
C22_CellStructureWithoutGaps ==
    (op = "single-word" /\ result /\ via = "primary" /\ ~GapInCell)
        => CopiesKeepCells(output[OutName].doc)

----------------------------------------------------------------------------
(* Claims about the spans the scanner finds *)

\* the spans found in the text of the paragraph as it was
Spans == finditer(OrigText)

\* a span is '{{', a name of word characters, '}}'
WellFormedSpan(text, span) ==
    /\ 0 <= span.start /\ span.end <= Len(text)
    /\ span.field_name # <<>>
    /\ \A i \in 1..Len(span.field_name) : IsWordChar(span.field_name[i])
    /\ Slice(text, span.start, span.end) = OpenBraces \o span.field_name \o CloseBraces

\* the text that results when the spans from the k-th on are replaced one
\* after the other, the text between them kept, starting at offset pos
RECURSIVE ReplacedInOrder(_, _, _, _, _)
ReplacedInOrder(text, spans, row, k, pos) ==
    IF k > Len(spans) THEN Slice(text, pos, Len(text))
    ELSE Slice(text, pos, spans[k].start)
             \o (IF spans[k].field_name \in DOMAIN row THEN row[spans[k].field_name] ELSE <<>>)
             \o ReplacedInOrder(text, spans, row, k + 1, spans[k].end)

\* C23.  The spans found in a paragraph text are finitely many, listed by
\* strictly increasing start, none overlapping the next, each one the text
\* '{{' + field_name + '}}' with a non-empty name of word characters, and
\* the rebuilt text is the one that results from replacing them from left
\* to right.
C23_SpansOrdered ==
    /\ Len(Spans) <= Len(OrigText)
    /\ \A k \in 1..Len(Spans) : WellFormedSpan(OrigText, Spans[k])
    /\ \A k \in 1..(Len(Spans) - 1) :
          /\ Spans[k].start < Spans[k + 1].start
          /\ Spans[k].end <= Spans[k + 1].start
    /\ Called => NewText = ReplacedInOrder(OrigText, Spans, data_row, 1, 0)

\* a rebuilt paragraph with two spans, the second starting where the first ends
C23_Witness ==
    /\ phase = "rebuilt"
    /\ Len(Spans) >= 2
    /\ Spans[1].end = Spans[2].start
    /\ NewText # OrigText

----------------------------------------------------------------------------
(* Claims about the conversion chain *)

\* C24.  The strategies of the platform are tried in one fixed order; the
\* first that reports success ends the call with success, and none is
\* called after it; the call reports failure only when every strategy has
\* been tried and has failed, or when something raised; what raises never
\* gives success.
C24_FirstSuccessWins ==
    LET tried == conversion.tried
        all == Strategies(conversion.system)
    IN  /\ Len(tried) <= Len(all)
        /\ \A k \in 1..Len(tried) : tried[k].name = all[k]
        /\ \A k \in 1..(Len(tried) - 1) : tried[k].outcome = "False"
        /\ conversion.status = "success"
              <=> (tried # <<>> /\ tried[Len(tried)].outcome = "True")
        /\ conversion.status = "failure"
              <=> \/ conversion.raised
                  \/ Len(tried) = Len(all) /\ \A k \in 1..Len(tried) : tried[k].outcome = "False"
        /\ conversion.raised => conversion.status = "failure"
        /\ conversion.status = "running"
              => Len(tried) < Len(all) /\ \A k \in 1..Len(tried) : tried[k].outcome = "False"

\* the third strategy succeeds after two have failed
C24_Witness ==
    /\ conversion.status = "success"
    /\ Len(conversion.tried) = 3
    /\ conversion.tried[1].outcome = "False"
    /\ conversion.tried[3].outcome = "True"

\* every strategy has failed
C24_WitnessAllFailed ==
    /\ conversion.status = "failure"
    /\ Len(conversion.tried) = Len(Strategies(conversion.system))
    /\ \A k \in 1..Len(conversion.tried) : conversion.tried[k].outcome = "False"

----------------------------------------------------------------------------
(* Claims about the sessions *)

HasProcessor(id) == \E k \in 1..Len(processors) : processors[k] = id

\* the session under watch has what it has uploaded, and its merge is not
\* rejected for missing files
KeepsUploads ==
    /\ session.template # NoPath
          => /\ HasProcessor("s")
             /\ template_path = session.template
             /\ template_path \in files
    /\ session.data # <<>> => HasProcessor("s") /\ data = session.data
    /\ session.template # NoPath /\ session.data # <<>> => ~session.rejected

\* C25.  A session has one processor for all its requests and keeps the
\* template and the data it has uploaded until it replaces them itself,
\* whatever requests other sessions make in between, their uploads with
\* cleanup_old_processors included; its merge is then not rejected for
\* missing files.
C25_SessionIsolated == KeepsUploads

\* C25 as long as cleanup_old_processors has not deleted the session's processor
C25_IsolatedUntilCleanup == ~session.evicted => KeepsUploads

----------------------------------------------------------------------------
(* Claims about the number of PDF files *)

PdfFiles == {n \in DOMAIN output : output[n].type = "pdf"}

\* C26.  When the multiple-pdf merge reports success for N records, the
\* output holds exactly N PDF files, one for every record.
C26_OnePdfPerRecord ==
    (op = "multiple-pdf" /\ result)
        => /\ Cardinality(PdfFiles) = Len(data)
           /\ PdfFiles = DOMAIN output

\* C26 as the code has it: success means that at least one record's Word
\* file was converted; the output holds PDF files only, at most N.
C26_SomePdf ==
    (op = "multiple-pdf" /\ result)
        => /\ Cardinality(PdfFiles) >= 1
           /\ Cardinality(PdfFiles) <= Len(data)
           /\ PdfFiles = DOMAIN output

----------------------------------------------------------------------------
(* Claims about a template load that fails *)

FailedLoad == op' = "load_template" /\ ~result'

\* C27.  A load_template that returns False leaves the template loaded
\* before as it was: template_path is unchanged and, if its file was there,
\* the file is still there, so that a merge still has its template.
C27_FailedLoadKeepsTemplate ==
    [][FailedLoad =>
          /\ template_path' = template_path
          /\ template_path # NoPath /\ template_path \in files => template_path \in files']_vars

\* C27 as the code has it: template_path is unchanged, and the file it
\* names is gone
C27_FailedLoadKeepsPath ==
    [][FailedLoad =>
          /\ template_path' = template_path
          /\ template_path # NoPath => template_path \notin files']_vars

----------------------------------------------------------------------------
(* Claims about the passes over a paragraph in one merge *)

\* the texts of the paragraphs the driver visits
ScopeTexts(doc) == [k \in 1..Len(DriverScope(doc)) |-> ParagraphText(DriverScope(doc)[k])]

\* the same texts with every token replaced once, the values left as they are
SinglePassTexts(doc, row) ==
    [k \in 1..Len(DriverScope(doc)) |->
        Substituted(ParagraphText(DriverScope(doc)[k]), row, 0)]

\* every document written is the template with one record's values put in
\* in a single pass
WrittenInOnePass ==
    \A n \in DOMAIN output :
        \E i \in 1..Len(data) :
            ScopeTexts(output[n].doc) = SinglePassTexts(Document(template_path), data[i])

\* C28.  In one record's merge every paragraph is rebuilt at most once: a
\* value that holds a token is in the output as it is, in body paragraphs,
\* table cells, headers and footers, a header or footer shared by several
\* sections included.
C28_SinglePass ==
    (op = "multiple-word" /\ result) => WrittenInOnePass

\* C28 for templates of one section
C28_SinglePassOneSection ==
    (op = "multiple-word" /\ result /\ Sections(Document(template_path)) = 1)
        => WrittenInOnePass

----------------------------------------------------------------------------
(* Claims about the header and footer of the combined document *)

CombinedDoc == output[OutName].doc

\* a record after the first whose own header or footer is not the first one's
OtherHeaderRecords ==
    {i \in 2..Len(data) :
        Alone(i).header # Alone(1).header \/ Alone(i).footer # Alone(1).footer}

\* C29.  The header and footer of the combined document are those of the
\* first record's merged document: what the later records put into their
\* header and footer is in no header or footer of the output.
C29_FirstRecordHeaders ==
    (op = "single-word" /\ result) =>
        /\ CombinedDoc.header = Alone(1).header
        /\ CombinedDoc.footer = Alone(1).footer
        /\ \A i \in OtherHeaderRecords :
               <<CombinedDoc.header, CombinedDoc.footer>> # <<Alone(i).header, Alone(i).footer>>

\* a combined document of records with different headers, on the first path
C29_Witness ==
    /\ op = "single-word" /\ result /\ via = "primary"
    /\ OtherHeaderRecords # {}
    /\ CombinedDoc.header = Alone(1).header

\* the same on the second path
C29_WitnessFallback ==
    /\ op = "single-word" /\ result /\ via = "fallback"
    /\ OtherHeaderRecords # {}
    /\ CombinedDoc.header = Alone(1).header

----------------------------------------------------------------------------
(* Claims about the page ranges of the Word splitter *)

SplitterParagraphs == Len(splitter.document)

\* what _pages_to_paragraphs returns for the page p alone
PageRange(p) ==
    pages_to_paragraphs(SplitterParagraphs, splitter.total_pages, splitter.page_breaks, p, p)

\* the range lies in the document
ValidRange(range) == 0 <= range[1] /\ range[1] <= range[2] /\ range[2] <= SplitterParagraphs - 1

\* the page ranges are those of the thumbnails
RangesAgree ==
    /\ Len(splitter.returned) = splitter.total_pages
    /\ \A p \in 1..splitter.total_pages : PageRange(p) = splitter.returned[p]

\* every paragraph is in the range of exactly one page
EveryParagraphOnce ==
    \A j \in 0..(SplitterParagraphs - 1) :
        Cardinality({p \in 1..splitter.total_pages :
                        PageRange(p)[1] <= j /\ j <= PageRange(p)[2]}) = 1

\* C30.  For a loaded document of at least one paragraph the range
\* _pages_to_paragraphs returns lies in the document for any start_page and
\* end_page, the range of a single page is the one get_page_thumbnails
\* reports for it, and the pages one by one hold every paragraph once.
C30_PageRanges ==
    (splitter.loaded /\ SplitterParagraphs >= 1) =>
        /\ splitter.call = "_pages_to_paragraphs" => ValidRange(splitter.returned)
        /\ splitter.call = "get_page_thumbnails" => RangesAgree /\ EveryParagraphOnce

\* the breaks are different paragraphs of the document, none of them the
\* last one's, and there are as many pages as the breaks delimit
BreaksDelimitPages ==
    /\ splitter.total_pages = Len(splitter.page_breaks) + 1
    /\ \A k \in 1..Len(splitter.page_breaks) :
           /\ 0 < splitter.page_breaks[k]
           /\ splitter.page_breaks[k] < SplitterParagraphs
           /\ k > 1 => splitter.page_breaks[k - 1] < splitter.page_breaks[k]

\* C30 for such breaks
C30_PageRangesDelimited ==
    (splitter.loaded /\ SplitterParagraphs >= 1 /\ BreaksDelimitPages) =>
        /\ splitter.call = "_pages_to_paragraphs" => ValidRange(splitter.returned)
        /\ splitter.call = "get_page_thumbnails" => RangesAgree /\ EveryParagraphOnce

====
